---- MODULE Spec2Model ----
(***************************************************************************)
(* Model of the MQTT adapter of server/mqtt.go: the per-account session    *)
(* manager (CONNECT, takeover, SUBSCRIBE, UNSUBSCRIBE, close, restart and  *)
(* replay of the sessions stream) and the retained-message store.          *)
(*                                                                         *)
(* Every packet handler is one action.  The close path of a connection is  *)
(* a sequence of steps (closeConnection, mqttHandleWill, the publication   *)
(* of the Will, mqttHandleClosedClient) because no lock spans them.        *)
(*                                                                         *)
(* Subjects are sequences of tokens: "foo.>" is <<"foo", ">">>.  A          *)
(* subscription identifier is a subject plus the marker of the level-up    *)
(* helper: "foo fwc" is [subj |-> <<"foo">>, fwc |-> TRUE].                *)
(*                                                                         *)
(* nuid.Next() returns a token that differs from every token in use; the   *)
(* model draws the smallest identifier that nothing refers to.             *)
(***************************************************************************)
EXTENDS Integers, Sequences, FiniteSets, TLC

\* ------------------------------------------------------------------ bounds
NConns == 2         \* connections the listener accepts over a run
MaxSeq == 2         \* records ever appended to the sessions stream
MaxNuid == 4        \* durable names / inbox tokens in use at the same time
MaxFilters == 1     \* filters of one SUBSCRIBE or UNSUBSCRIBE packet (Spec)
MaxSubFilters == 2  \* filters of one SUBSCRIBE packet (SubSpec)
MaxTopics == 2      \* topics of the retained store (RetSpec)
MaxRetSubs == 3     \* subscription objects ever inserted in the retained index

\* --------------------------------------------------------- program constants
mqttProtoLevel == 4
mqttSubAckFailure == 128
mqttPubFlagRetain == 1
mqttPubQos1 == 2
mqttConnAckRCConnectionAccepted == 0
mqttConnAckRCUnacceptableProtocolVersion == 1
mqttConnAckRCIdentifierRejected == 2
mqttConnAckRCServerUnavailable == 3
mqttConnAckRCBadUserOrPassword == 4
mqttConnAckRCNotAuthorized == 5

Conns == 1..NConns
NoConn == 0
ClientIDs == {"me"}
GenIDs == {"nuid"}          \* client IDs generated for an empty client ID
AllIDs == ClientIDs \cup GenIDs
Accounts == {"js", "nojs"}
Names == 1..MaxNuid         \* durable consumer names
Inboxes == 1..MaxNuid       \* "$MQTT.sub.<nuid>" delivery subjects
Filters == {<<"bar">>, <<"foo", ">">>}
SpecFilters == {<<"foo", ">">>}     \* the filters Spec subscribes to
EmptyMap == [x \in {} |-> 0]

VARIABLES
    conn,       \* per connection: the client and its mqtt struct
    sm,         \* mqttSessionManager.sessions: accounts having a session manager
    sessions,   \* mqttAccountSessionManager.sessions of account "js"
    slog,       \* sessions stream: live records by sequence
    lastSeq,    \* sessions stream: last sequence assigned
    mcons,      \* messages stream: consumer objects by durable name
    evt,        \* the last step taken and what it returned
    rmsgs,      \* mqttRetained.msgs
    rsl,        \* mqttRetained.sl: the subscription objects in the index
    rnext,      \* subscription objects created so far for the index
    rlast       \* per topic, what the last retained operation on it was

vars == <<conn, sm, sessions, slog, lastSeq, mcons, evt, rmsgs, rsl, rnext, rlast>>
sessVars == <<conn, sm, sessions, slog, lastSeq, mcons>>
retVars == <<rmsgs, rsl, rnext, rlast>>

\* ----------------------------------------------------------------- helpers
Range(f) == {f[x] : x \in DOMAIN f}
Min(S) == CHOOSE x \in S : \A y \in S : x <= y
Restrict(f, S) == [x \in S |-> f[x]]
Put(f, k, v) == [x \in DOMAIN f \cup {k} |-> IF x = k THEN v ELSE f[x]]
Drop(f, k) == [x \in DOMAIN f \ {k} |-> f[x]]

Sid(subject) == [subj |-> subject, fwc |-> FALSE]
\* "foo" followed by mqttMultiLevelSidSuffix
FwcSid(parent) == [subj |-> parent, fwc |-> TRUE]

\* Returns true if the subject has more than 1 token and ends with ".>"
mqttNeedSubForLevelUp(subject) ==
    Len(subject) >= 2 /\ subject[Len(subject)] = ">"

LevelUpSubject(subject) == SubSeq(subject, 1, Len(subject) - 1)

\* a connection object as createClient leaves it
FreshConn ==
    [pc |-> "new", cid |-> "", will |-> FALSE, wqos |-> 0, wretain |-> FALSE,
     pp |-> 0, ppi |-> 0, acks |-> EmptyMap, out |-> <<>>, prm |-> {},
     ps |-> [subs |-> <<>>, keys |-> <<>>, res |-> <<>>], cons |-> EmptyMap, subs |-> EmptyMap, isubs |-> EmptyMap,
     closeReq |-> FALSE, willSent |-> FALSE, tk |-> "none",
     path |-> <<>>, held |-> <<>>]

NoEvt == [op |-> "none"]

\* ------------------------------------------------------------------- nuid
\* A handler works on st: the connection's client ID, subs, cons and inbox
\* subs, the messages stream's consumers, the result bytes so far, and stuck
\* (the model has no unused identifier left, which ends the exploration of
\* that branch).
\* nuid.Next() for a durable name: the names nothing refers to.
FreshNames(st, c) ==
    Names \ (DOMAIN st.mcons
             \cup Range(st.cons)
             \cup UNION {Range(conn[d].cons) : d \in Conns \ {c}}
             \cup UNION {Range(sessions[id].cons) : id \in DOMAIN sessions}
             \cup UNION {Range(slog[s].cons) : s \in DOMAIN slog})

\* nuid.Next() for an inbox: the inboxes nothing refers to.
FreshInboxes(st, c) ==
    Inboxes \ ({st.mcons[n].deliver : n \in DOMAIN st.mcons}
               \cup DOMAIN st.isubs
               \cup UNION {DOMAIN conn[d].isubs : d \in Conns \ {c}})

\* Consumer.Delete(): the object stays reachable through stale handles.
DeleteCons(m, name) ==
    IF name \in DOMAIN m THEN [m EXCEPT ![name].live = FALSE] ELSE m

\* Stream.addConsumer with a durable name: an existing durable gets the new
\* delivery subject, otherwise the consumer is created.  owner and sid are
\* not in the consumer's configuration: they record the session and the
\* subscription the consumer was created for.
addConsumer(m, name, subject, inbox, owner, sid) ==
    Put(m, name, [filter |-> subject, deliver |-> inbox, live |-> TRUE,
                  owner |-> owner, sid |-> sid])

\* Stream.LookupConsumer(name) # nil
LookupConsumer(m, name) == name \in DOMAIN m /\ m[name].live

\* Consumer objects that are deleted and that no handle refers to are gone.
Collect(m, cn, ss) ==
    LET held == UNION {Range(cn[c].cons) : c \in Conns}
                \cup UNION {Range(ss[id].cons) : id \in DOMAIN ss}
    IN Restrict(m, {n \in DOMAIN m : m[n].live \/ n \in held})

\* ------------------------------------------------- SUBSCRIBE: one filter
\* What the host broker refuses while a filter is processed: nothing, the
\* subscription (processSub), the consumer or its inbox subscription, and
\* the same two for the level-up helper.
FailKinds == {"none", "sub", "js", "fwcsub", "fwcjs"}

FailKindsOf(subject) ==
    IF mqttNeedSubForLevelUp(subject) THEN FailKinds ELSE {"none", "sub", "js"}

\* the granted QoS without the cap at 1
ClampQoS_NoCap(q) == q

\* if f.qos > 1 { f.qos = 1 }
ClampQoS(q) == IF q > 1 THEN 1 ELSE q

\* client.processSub: registers the subscription, or updates the QoS of the
\* one the connection already has under this sid.
processSub(st, sid, qos) == [st EXCEPT !.subs = Put(@, sid, qos)]

\* client.unsubscribe
unsubscribe(st, sid) == [st EXCEPT !.subs = Drop(@, sid)]

NoJS(st, e) == [st |-> st, cons |-> 0, jssub |-> 0, err |-> e]

mqttProcessJSConsumerForSubject(st, c, subject, sid, qos, refused) ==
    LET exists == sid \in DOMAIN st.cons IN
    IF exists /\ qos = 0 THEN
        LET name == st.cons[sid]
            inbox == st.mcons[name].deliver
        IN NoJS([st EXCEPT !.cons = Drop(@, sid),
                           !.mcons = DeleteCons(@, name),
                           !.isubs = Drop(@, inbox)], FALSE)
    ELSE IF qos = 0 THEN NoJS(st, FALSE)
    ELSE IF (~exists /\ FreshNames(st, c) = {}) \/ FreshInboxes(st, c) = {}
         THEN NoJS([st EXCEPT !.stuck = TRUE], FALSE)
    ELSE IF refused THEN NoJS(st, TRUE)
    ELSE
        LET durName == IF exists THEN st.cons[sid] ELSE Min(FreshNames(st, c))
            inbox == Min(FreshInboxes(st, c))
        IN [st |-> [st EXCEPT !.isubs = Put(@, inbox, sid),
                              !.mcons = addConsumer(@, durName, subject, inbox,
                                                   st.id, sid)],
            cons |-> durName, jssub |-> inbox, err |-> FALSE]

mqttAddJSConsumer(st, cons, sid) ==
    IF cons = 0 THEN st ELSE [st EXCEPT !.cons = Put(@, sid, cons)]

\* sub is the sid of the subscription to remove, jscons and jssub are 0 for nil
mqttCleanupFailedSub(st, sub, jscons, jssub) ==
    LET s1 == unsubscribe(st, sub)
        s2 == IF jssub # 0 THEN [s1 EXCEPT !.isubs = Drop(@, jssub)] ELSE s1
    IN IF jscons # 0 THEN [s2 EXCEPT !.mcons = DeleteCons(@, jscons)] ELSE s2

Granted(st, qos) == [st EXCEPT !.res = Append(@, qos)]
Failed(st) == [st EXCEPT !.res = Append(@, mqttSubAckFailure)]

\* The body of the loop of mqttProcessSubs for the filter f = [filter, qos].
ProcessOneSub(st, c, f, fail) ==
    LET qos == ClampQoS(f.qos)
        subject == f.filter
        sid == Sid(subject)
    IN
    IF fail = "sub" THEN Failed(st)
    ELSE
    LET j1 == mqttProcessJSConsumerForSubject(processSub(st, sid, qos), c,
                                              subject, sid, qos, fail = "js")
    IN
    IF j1.st.stuck THEN j1.st
    ELSE IF j1.err THEN Failed(mqttCleanupFailedSub(j1.st, sid, 0, 0))
    ELSE IF mqttNeedSubForLevelUp(subject) THEN
        LET fwcsubject == LevelUpSubject(subject)
            fwcsid == FwcSid(fwcsubject)
        IN
        IF fail = "fwcsub"
        THEN Failed(mqttCleanupFailedSub(j1.st, sid, j1.cons, j1.jssub))
        ELSE
        LET j2 == mqttProcessJSConsumerForSubject(
                      processSub(j1.st, fwcsid, qos), c,
                      fwcsubject, fwcsid, qos, fail = "fwcjs")
        IN
        IF j2.st.stuck THEN j2.st
        ELSE IF j2.err
        THEN Failed(mqttCleanupFailedSub(
                        mqttCleanupFailedSub(j2.st, sid, j1.cons, j1.jssub),
                        fwcsid, 0, 0))
        ELSE Granted(mqttAddJSConsumer(
                         mqttAddJSConsumer(j2.st, j2.cons, fwcsid),
                         j1.cons, sid), qos)
    ELSE Granted(mqttAddJSConsumer(j1.st, j1.cons, sid), qos)

\* The loop of mqttProcessSubs over filters (a sequence) with the host's
\* refusals fails (a sequence of the same length).
RECURSIVE ProcessSubs(_, _, _, _, _)
ProcessSubs(st, c, filters, fails, i) ==
    IF i > Len(filters) \/ st.stuck THEN st
    ELSE ProcessSubs(ProcessOneSub(st, c, filters[i], fails[i]), c,
                     filters, fails, i + 1)

\* the state a handler of connection c starts from
StartOf(c, m) ==
    [id |-> conn[c].cid, subs |-> conn[c].subs, cons |-> conn[c].cons,
     isubs |-> conn[c].isubs, mcons |-> m, res |-> <<>>, stuck |-> FALSE]

\* ------------------------------------------------ account session manager
\* The session manager's data while a handler runs:
\* env = [sessions, slog, lastSeq, err].
EnvNow == [sessions |-> sessions, slog |-> slog, lastSeq |-> lastSeq,
           err |-> FALSE]

NewSession(c, cleanSess) ==
    [c |-> c, clean |-> cleanSess, subs |-> EmptyMap, subsNil |-> FALSE,
     cons |-> EmptyMap, sseq |-> 0]

\* What the store makes of StoreMsg: it may fail, and the model lets it
\* succeed MaxSeq times.
StoreOutcomes == IF lastSeq < MaxSeq THEN {TRUE, FALSE} ELSE {FALSE}

\* saveSession without the DeleteMsg of the record it replaces
saveSession_KeepsOld(env, clientID, ccons, stored) ==
    LET sess == env.sessions[clientID]
        ps == [id |-> clientID, clean |-> sess.clean, subs |-> sess.subs,
               cons |-> ccons]
        newSeq == env.lastSeq + 1
    IN IF ~stored THEN [env EXCEPT !.err = TRUE]
       ELSE [env EXCEPT !.slog = Put(@, newSeq, ps),
                        !.lastSeq = newSeq,
                        !.sessions[clientID].sseq = newSeq]

\* ccons is c.mqtt.cons, stored tells whether StoreMsg succeeds
saveSession(env, clientID, ccons, stored) ==
    LET sess == env.sessions[clientID]
        ps == [id |-> clientID, clean |-> sess.clean, subs |-> sess.subs,
               cons |-> ccons]
        newSeq == env.lastSeq + 1
    IN IF ~stored THEN [env EXCEPT !.err = TRUE]
       ELSE [env EXCEPT
                !.slog = Put(IF sess.sseq # 0 THEN Drop(@, sess.sseq) ELSE @,
                             newSeq, ps),
                !.lastSeq = newSeq,
                !.sessions[clientID].sseq = newSeq]

\* clearSession, the session manager's part
clearSession(env, clientID) ==
    LET sess == env.sessions[clientID] IN
    [env EXCEPT
        !.sessions[clientID].cons = EmptyMap,
        !.sessions[clientID].subs = EmptyMap,
        !.sessions[clientID].subsNil = FALSE,
        !.sessions[clientID].sseq = 0,
        !.slog = IF sess.sseq # 0 THEN Drop(@, sess.sseq) ELSE @]

\* clearSession, the messages stream's part: cons.Delete() for sess.cons
RECURSIVE DeleteAll(_, _)
DeleteAll(m, names) ==
    IF names = {} THEN m
    ELSE LET n == CHOOSE x \in names : TRUE
         IN DeleteAll(DeleteCons(m, n), names \ {n})

clearSessionCons(m, sess) == DeleteAll(m, Range(sess.cons))

\* The loop of updateSession: keys are string(f.filter), res the SUBACK
\* bytes.  Writing to a nil map panics.
RECURSIVE ApplyFilters(_, _, _, _, _)
ApplyFilters(acc, keys, res, add, i) ==
    IF i > Len(keys) \/ acc.panic THEN acc
    ELSE LET k == keys[i] IN
         IF res[i] = mqttSubAckFailure
         THEN ApplyFilters(acc, keys, res, add, i + 1)
         ELSE IF add THEN
             IF k \notin DOMAIN acc.subs \/ acc.subs[k] # res[i]
             THEN IF acc.nil
                  THEN [acc EXCEPT !.panic = TRUE]
                  ELSE ApplyFilters([acc EXCEPT !.subs = Put(@, k, res[i]),
                                                !.need = TRUE],
                                    keys, res, add, i + 1)
             ELSE ApplyFilters(acc, keys, res, add, i + 1)
         ELSE
             IF k \in DOMAIN acc.subs
             THEN ApplyFilters([acc EXCEPT !.subs = Drop(@, k), !.need = TRUE],
                               keys, res, add, i + 1)
             ELSE ApplyFilters(acc, keys, res, add, i + 1)

\* Returns [env, panic].  ccons is c.mqtt.cons when the session is saved.
updateSession(env, clientID, c, ccons, keys, res, add, stored) ==
    IF clientID \notin DOMAIN env.sessions \/ env.sessions[clientID].c # c
    THEN [env |-> env, panic |-> FALSE]
    ELSE
    LET es == env.sessions[clientID]
        a == ApplyFilters([subs |-> es.subs, nil |-> es.subsNil,
                           need |-> FALSE, panic |-> FALSE],
                          keys, res, add, 1)
        e1 == [env EXCEPT !.sessions[clientID].subs = a.subs]
    IN IF a.panic THEN [env |-> env, panic |-> TRUE]
       ELSE IF a.need
       THEN [env |-> saveSession(e1, clientID, ccons, stored), panic |-> FALSE]
       ELSE [env |-> e1, panic |-> FALSE]

\* The recovery loop of mqttAccountSessionManager.init: the records of the
\* sessions stream from the first to the last sequence.
RECURSIVE Recover(_, _, _)
Recover(env, m, seq) ==
    IF seq > env.lastSeq THEN env
    ELSE IF seq \notin DOMAIN env.slog THEN Recover(env, m, seq + 1)
    ELSE
    LET ps == env.slog[seq]
        ok == ps.id \in DOMAIN env.sessions
        old == IF ok THEN env.sessions[ps.id]
               ELSE [c |-> NoConn, clean |-> FALSE, subs |-> EmptyMap,
                     subsNil |-> TRUE, cons |-> EmptyMap, sseq |-> 0]
        found == {sid \in DOMAIN ps.cons : LookupConsumer(m, ps.cons[sid])}
        cons == [sid \in DOMAIN old.cons \cup found |->
                    IF sid \in found THEN ps.cons[sid] ELSE old.cons[sid]]
        es == [old EXCEPT !.sseq = seq, !.clean = ps.clean, !.subs = ps.subs,
                          !.subsNil = (DOMAIN ps.subs = {}), !.cons = cons]
    IN Recover([env EXCEPT
                   !.slog = IF ok /\ old.sseq # 0 THEN Drop(@, old.sseq) ELSE @,
                   !.sessions = Put(@, ps.id, es)],
               m, seq + 1)

asmInit == Recover([EnvNow EXCEPT !.sessions = EmptyMap], mcons, 1)

JetStreamEnabled(acc) == acc = "js"

\* ----------------------------------------------------------------- CONNECT
\* The CONNECT packets: the well-formed ones, and those with one defect.
ConnPkts ==
    {p \in [level : {3, mqttProtoLevel}, reserved : BOOLEAN, clean : BOOLEAN,
            cid : ClientIDs \cup {""}, will : BOOLEAN, wqos : 0..3,
            wretain : BOOLEAN, userEmpty : BOOLEAN] :
        Cardinality({d \in {"level", "reserved", "will", "cid", "user"} :
                        \/ d = "level" /\ p.level # mqttProtoLevel
                        \/ d = "reserved" /\ p.reserved
                        \/ d = "will" /\ IF p.will THEN p.wqos = 3
                                         ELSE p.wqos # 0 \/ p.wretain
                        \/ d = "cid" /\ p.cid = "" /\ ~p.clean
                        \/ d = "user" /\ p.userEmpty}) <= 1}

\* The return code and whether parsing failed.
mqttParseConnect(p) ==
    IF p.level # mqttProtoLevel
    THEN [rc |-> mqttConnAckRCUnacceptableProtocolVersion, err |-> TRUE]
    ELSE IF p.reserved THEN [rc |-> 0, err |-> TRUE]
    ELSE IF ~p.will /\ (p.wqos # 0 \/ p.wretain) THEN [rc |-> 0, err |-> TRUE]
    ELSE IF p.will /\ p.wqos = 3 THEN [rc |-> 0, err |-> TRUE]
    ELSE IF p.cid = "" /\ ~p.clean
    THEN [rc |-> mqttConnAckRCIdentifierRejected, err |-> TRUE]
    ELSE IF p.userEmpty
    THEN [rc |-> mqttConnAckRCBadUserOrPassword, err |-> TRUE]
    ELSE [rc |-> 0, err |-> FALSE]

\* The CONNECT packets of the specifications that do not look at what the
\* will carries: a will, if any, has QoS 1 and the retain flag.
SpecPkts ==
    {p \in ConnPkts : IF p.will THEN p.wqos = 1 /\ p.wretain
                                ELSE p.wqos = 0 /\ ~p.wretain}

\* nuid.Next() for an empty client ID: the generated IDs nothing refers to
FreshIDs ==
    GenIDs \ (DOMAIN sessions \cup {slog[q].id : q \in DOMAIN slog}
              \cup {conn[d].cid : d \in Conns})

\* SessPresent looking at the CONNECT's flag only
SessPresent_IgnoresStored(ok, cleanSess, esClean) == ok /\ ~cleanSess

\* Session present? Set only for an existing session that neither side
\* wants clean.
SessPresent(ok, cleanSess, esClean) == ok /\ ~(cleanSess \/ esClean)

\* The session-present byte of the CONNACK.
mqttEnqueueConnAck(rc, sessionPresent) ==
    IF rc = 0 /\ sessionPresent THEN 1 ELSE 0

\* The filters of es.subs in the order the restoring loop visits them.
RECURSIVE SeqOf(_)
SeqOf(S) ==
    IF S = {} THEN <<>>
    ELSE LET x == CHOOSE y \in S : TRUE IN <<x>> \o SeqOf(S \ {x})

\* mqttProcessConnect from the lookup of the session to the binding of the
\* new client, given the session manager's data e0: the data afterwards,
\* the messages stream, the consumers handed to the client, the client
\* found bound, and sessp.
BindIn(e0, c, cleanSess, clientID, stored) ==
    LET ok == clientID \in DOMAIN e0.sessions
        old == IF ok THEN e0.sessions[clientID] ELSE NewSession(NoConn, FALSE)
        clear == ok /\ (cleanSess \/ old.clean)
    IN [env |-> IF ok
                THEN [(IF clear THEN clearSession(e0, clientID) ELSE e0) EXCEPT
                         !.sessions[clientID].c = c,
                         !.sessions[clientID].clean = cleanSess,
                         !.sessions[clientID].cons = EmptyMap]
                ELSE saveSession(
                         [e0 EXCEPT !.sessions =
                                      Put(@, clientID, NewSession(c, cleanSess))],
                         clientID, conn[c].cons, stored),
        mcons |-> IF clear THEN clearSessionCons(mcons, old) ELSE mcons,
        cons |-> IF ok /\ ~clear THEN old.cons ELSE EmptyMap,
        ec |-> old.c,
        sessp |-> SessPresent(ok, cleanSess, old.clean)]

\* getOrCreateAccountSessionManager, then the binding
BindSession(c, cleanSess, clientID, stored) ==
    BindIn(IF "js" \in sm THEN EnvNow ELSE asmInit, c, cleanSess, clientID,
           stored)

\* The client object once the connection is closed.
ClosedConn(cl) ==
    [FreshConn EXCEPT !.pc = "closed"]

\* client.closeConnection up to the MQTT hooks: the connection is marked
\* closed and its subscriptions are removed.
closeConnection(cl) ==
    [cl EXCEPT !.pc = "closing", !.closeReq = FALSE,
               !.subs = EmptyMap, !.isubs = EmptyMap]

\* The server stops without closing anything and starts again: what is in
\* memory is gone, the two streams and their live consumers stay.  The
\* connections not yet accepted are those of the new process.
Crashed(op, c) ==
    /\ conn' = [d \in Conns |-> IF conn[d].pc = "new" THEN conn[d]
                                ELSE ClosedConn(FreshConn)]
    /\ sm' = {}
    /\ sessions' = EmptyMap
    /\ mcons' = Restrict(mcons, {n \in DOMAIN mcons : mcons[n].live})
    /\ evt' = [op |-> op, c |-> c]
    /\ UNCHANGED <<slog, lastSeq>>

\* The connections are numbered in the order the listener accepts them:
\* c is the one whose CONNECT is read next.
Arrived(c) ==
    /\ conn[c].pc = "new"
    /\ \A d \in Conns : d < c => conn[d].pc # "new"

\* c.mqtt.cp.will = nil
NoWill(cl) == [cl EXCEPT !.will = FALSE, !.wqos = 0, !.wretain = FALSE]

\* The client ec found bound to the session: its will is removed and
\* go ec.closeConnection(DuplicateClientID) is started.  tk records whether
\* ec was still open or already closing on its own.
Takeover(ec) ==
    [NoWill(ec) EXCEPT
               !.closeReq = (ec.pc = "connected"),
               !.tk = IF ec.pc = "connected" THEN "live" ELSE "closing"]

\* The end of mqttProcessConnect and mqttEnqueueConnAck: b is the binding,
\* st what the restoring of the subscriptions has made of the client.
Bound(c, p, clientID, b, failed, st) ==
    /\ ~st.stuck
    /\ conn' = [d \in Conns |->
                  IF d = c
                  THEN [conn[c] EXCEPT
                           !.pc = "connected", !.cid = clientID,
                           !.will = p.will, !.wqos = p.wqos,
                           !.wretain = p.wretain, !.cons = st.cons,
                           !.subs = st.subs, !.isubs = st.isubs]
                  ELSE IF d = b.ec THEN Takeover(conn[d])
                  ELSE conn[d]]
    /\ sm' = sm \cup {"js"}
    /\ sessions' = b.env.sessions
    /\ slog' = b.env.slog
    /\ lastSeq' = b.env.lastSeq
    /\ mcons' = Collect(st.mcons, conn', b.env.sessions)
    /\ evt' = [op |-> "connect", c |-> c,
               rc |-> mqttConnAckRCConnectionAccepted, connack |-> TRUE,
               sp |-> mqttEnqueueConnAck(mqttConnAckRCConnectionAccepted,
                                         b.sessp),
               failed |-> failed, prev |-> b.ec,
               prevWill |-> b.ec # NoConn /\ conn[b.ec].will]

\* Restore subscribing with QoS 0 whatever the session recorded
Restore_QoS0(c, clientID, b, subs, keys, fails) ==
    ProcessSubs([id |-> clientID, subs |-> conn[c].subs, cons |-> b.cons,
                 isubs |-> conn[c].isubs, mcons |-> b.mcons, res |-> <<>>,
                 stuck |-> FALSE],
                c,
                [i \in 1..Len(keys) |-> [filter |-> keys[i], qos |-> 0]],
                [i \in 1..Len(keys) |-> fails[keys[i]]],
                1)

\* The restoring of the subscriptions subs of the session: fails maps each
\* filter to what the host refuses.
Restore(c, clientID, b, subs, keys, fails) ==
    ProcessSubs([id |-> clientID, subs |-> conn[c].subs, cons |-> b.cons,
                 isubs |-> conn[c].isubs, mcons |-> b.mcons, res |-> <<>>,
                 stuck |-> FALSE],
                c,
                [i \in 1..Len(keys) |-> [filter |-> keys[i], qos |-> subs[keys[i]]]],
                [i \in 1..Len(keys) |-> fails[keys[i]]],
                1)

Restored(c, p, clientID, b, subs) ==
    \E fails \in [DOMAIN subs -> FailKinds] :
        /\ \A k \in DOMAIN subs : fails[k] \in FailKindsOf(k)
        /\ Bound(c, p, clientID, b, {k \in DOMAIN subs : fails[k] # "none"},
                 Restore(c, clientID, b, subs, SeqOf(DOMAIN subs), fails))

Accepted(c, p, clientID, b) ==
    Restored(c, p, clientID, b, b.env.sessions[clientID].subs)

\* A CONNECT that is accepted: mqttParse, mqttParseConnect,
\* mqttProcessConnect with the restoring of the session's subscriptions,
\* and mqttEnqueueConnAck.
ConnectAccepted(c, p, stored) ==
    /\ Arrived(c)
    /\ ~mqttParseConnect(p).err
    /\ p.cid = "" => FreshIDs # {}
    /\ \E clientID \in AllIDs :
          /\ clientID = (IF p.cid = "" THEN CHOOSE g \in FreshIDs : TRUE
                         ELSE p.cid)
          /\ Accepted(c, p, clientID, BindSession(c, p.clean, clientID, stored))
    /\ UNCHANGED retVars

\* A CONNECT that is refused: by mqttParseConnect, by the authentication,
\* or because the account has no JetStream.  The connection is closed;
\* c.mqtt.cp is nil, so that mqttHandleWill and mqttHandleClosedClient
\* return at once.
ConnectRefused(c, p, auth, acc) ==
    /\ Arrived(c)
    /\ LET pr == mqttParseConnect(p)
           jsErr == acc \notin sm /\ ~JetStreamEnabled(acc)
           rc == IF pr.err THEN pr.rc
                 ELSE IF ~auth THEN mqttConnAckRCNotAuthorized
                 ELSE 0
       IN /\ pr.err \/ ~auth \/ jsErr
          /\ evt' = [op |-> "refused", c |-> c, rc |-> rc,
                     js |-> ~pr.err /\ auth /\ jsErr,
                     connack |-> rc # 0,
                     sp |-> mqttEnqueueConnAck(rc, FALSE)]
    /\ conn' = [conn EXCEPT ![c] = ClosedConn(conn[c])]
    /\ UNCHANGED <<sm, sessions, slog, lastSeq, mcons>>
    /\ UNCHANGED retVars

\* ------------------------------------------------------------- close path
\* DISCONNECT: the will is discarded, then the connection is closed.
Disconnect(c) ==
    /\ conn[c].pc = "connected"
    /\ conn' = [conn EXCEPT ![c] = closeConnection(NoWill(conn[c]))]
    /\ evt' = [op |-> "disconnect", c |-> c]
    /\ UNCHANGED <<sm, sessions, slog, lastSeq, mcons>>
    /\ UNCHANGED retVars

\* The connection is closed for a reason of its own: a read or write error,
\* a protocol error, a stale connection.
ConnError(c) ==
    /\ conn[c].pc = "connected"
    /\ conn' = [conn EXCEPT ![c] = closeConnection(conn[c])]
    /\ evt' = [op |-> "connerror", c |-> c]
    /\ UNCHANGED <<sm, sessions, slog, lastSeq, mcons>>
    /\ UNCHANGED retVars

\* go ec.closeConnection(DuplicateClientID) gets to run
DupClose(c) ==
    /\ conn[c].pc = "connected"
    /\ conn[c].closeReq
    /\ conn' = [conn EXCEPT ![c] = closeConnection(conn[c])]
    /\ evt' = [op |-> "dupclose", c |-> c]
    /\ UNCHANGED <<sm, sessions, slog, lastSeq, mcons>>
    /\ UNCHANGED retVars

\* flags without the retain bit
WillFlags_NoRetain(qos, retain) == (qos * 2) % 256

\* The flags of the publication mqttHandleWill makes of a will:
\* will.qos << 1, and mqttPubFlagRetain if will.retain
WillFlags(qos, retain) ==
    ((qos * 2) % 256) + (IF retain THEN mqttPubFlagRetain ELSE 0)

\* mqttGetQoS: (flags & mqttPubFlagQoS) >> 1
mqttGetQoS(flags) == (flags \div 2) % 4

\* mqttHandleWill up to the release of the client's lock: the will is read
\* and the publication pp is made of it.
HandleWill(c) ==
    /\ conn[c].pc = "closing"
    /\ conn' = IF conn[c].cid # "" /\ conn[c].will
               THEN [conn EXCEPT ![c].pc = "willpub",
                                 ![c].pp = WillFlags(conn[c].wqos,
                                                     conn[c].wretain)]
               ELSE [conn EXCEPT ![c].pc = "detach"]
    /\ evt' = [op |-> "handlewill", c |-> c]
    /\ UNCHANGED <<sm, sessions, slog, lastSeq, mcons>>
    /\ UNCHANGED retVars

\* mqttHandleWill after the release of the lock: s.mqttProcessPub(c, pp)
WillPublish(c) ==
    /\ conn[c].pc = "willpub"
    /\ conn' = [conn EXCEPT ![c].pc = "detach", ![c].willSent = TRUE,
                            ![c].pp = 0]
    /\ evt' = [op |-> "willpub", c |-> c, tk |-> conn[c].tk,
               flags |-> conn[c].pp]
    /\ UNCHANGED <<sm, sessions, slog, lastSeq, mcons>>
    /\ UNCHANGED retVars

\* CloseSession that keeps the session whatever its clean flag
CloseSession_KeepsClean(env, m, id, ccons) ==
    [env |-> [env EXCEPT !.sessions[id].cons = ccons,
                         !.sessions[id].c = NoConn],
     mcons |-> m]

\* mqttHandleClosedClient once the session es of the client ID is found
\* bound to the client: ccons is c.mqtt.cons.  The session manager's data
\* and the messages stream afterwards.
CloseSession(env, m, id, ccons) ==
    LET es == [env.sessions[id] EXCEPT !.cons = ccons] IN
    IF es.clean
    THEN [env |-> [clearSession([env EXCEPT !.sessions[id] = es], id) EXCEPT
                      !.sessions = Drop(@, id)],
          mcons |-> clearSessionCons(m, es)]
    ELSE [env |-> [env EXCEPT !.sessions[id] = [es EXCEPT !.c = NoConn]],
          mcons |-> m]

\* the client ID of c has a session, whatever connection it is bound to
BoundTo_Any(c) ==
    /\ conn[c].cid # ""
    /\ "js" \in sm
    /\ conn[c].cid \in DOMAIN sessions

\* Is the session of the client's ID bound to the client c?
BoundTo(c) ==
    /\ conn[c].cid # ""
    /\ "js" \in sm
    /\ conn[c].cid \in DOMAIN sessions
    /\ sessions[conn[c].cid].c = c

Closed(c, r) ==
    /\ conn' = [conn EXCEPT ![c] = ClosedConn(conn[c])]
    /\ sessions' = r.env.sessions
    /\ slog' = r.env.slog
    /\ lastSeq' = r.env.lastSeq
    /\ mcons' = Collect(r.mcons, conn', r.env.sessions)
    /\ evt' = [op |-> "closed", c |-> c, tk |-> conn[c].tk]

\* mqttHandleClosedClient, after which the client object is dropped
HandleClosed(c) ==
    /\ conn[c].pc = "detach"
    /\ Closed(c, IF BoundTo(c)
                 THEN CloseSession(EnvNow, mcons, conn[c].cid, conn[c].cons)
                 ELSE [env |-> EnvNow, mcons |-> mcons])
    /\ UNCHANGED sm
    /\ UNCHANGED retVars

Restart ==
    /\ Crashed("restart", NoConn)
    /\ UNCHANGED retVars

\* ------------------------------------------------- SUBSCRIBE, UNSUBSCRIBE
QoSs == 0..2

SubFilters(F) == [filter : F, qos : QoSs]

SeqsUpTo(S, n) == UNION {[1..k -> S] : k \in 1..n}

\* A SUBSCRIBE: mqttParseSubs, mqttProcessSubs with the update of the
\* session, mqttEnqueueSubAck.  With trace, the filters are traced.
Subscribe(c, filters, fails, stored, trace) ==
    /\ conn[c].pc = "connected"
    /\ \A i \in 1..Len(filters) :
          /\ fails[i] \in FailKindsOf(filters[i].filter)
          \* a consumer is asked for, and can be refused, only with QoS >= 1
          /\ fails[i] \in {"js", "fwcjs"} => filters[i].qos >= 1
    /\ LET st == ProcessSubs(StartOf(c, mcons), c, filters, fails, 1)
           keys == [i \in 1..Len(filters) |-> filters[i].filter]
           u == updateSession(EnvNow, conn[c].cid, c, st.cons, keys, st.res,
                              TRUE, stored)
           c1 == [conn[c] EXCEPT !.subs = st.subs, !.cons = st.cons,
                                 !.isubs = st.isubs]
           cn == [conn EXCEPT ![c] = IF u.env.err THEN closeConnection(c1)
                                     ELSE c1]
       IN /\ ~st.stuck
          /\ IF u.panic THEN Crashed("panic", c)
             ELSE /\ conn' = cn
                  /\ sessions' = u.env.sessions
                  /\ slog' = u.env.slog
                  /\ lastSeq' = u.env.lastSeq
                  /\ mcons' = Collect(st.mcons, cn, u.env.sessions)
                  /\ sm' = sm
                  /\ evt' = [op |-> "subscribe", c |-> c,
                             filters |-> IF trace THEN filters ELSE <<>>,
                             fails |-> IF trace THEN fails ELSE <<>>,
                             res |-> st.res, suback |-> ~u.env.err]
    /\ UNCHANGED retVars

mqttRemoveJSConsumer(st, sid) ==
    IF sid \in DOMAIN st.cons
    THEN [st EXCEPT !.cons = Drop(@, sid),
                    !.mcons = DeleteCons(@, st.cons[sid])]
    ELSE st

\* The body of the loop of mqttProcessUnsubs for one filter.
ProcessOneUnsub(st, subject) ==
    LET s1 == unsubscribe(mqttRemoveJSConsumer(st, Sid(subject)), Sid(subject))
    IN IF mqttNeedSubForLevelUp(subject)
       THEN LET fwcsid == FwcSid(LevelUpSubject(subject))
            IN unsubscribe(mqttRemoveJSConsumer(s1, fwcsid), fwcsid)
       ELSE s1

RECURSIVE ProcessUnsubs(_, _, _)
ProcessUnsubs(st, subjects, i) ==
    IF i > Len(subjects) THEN st
    ELSE ProcessUnsubs(ProcessOneUnsub(st, subjects[i]), subjects, i + 1)

\* What f.filter holds once the loop is over.  sid = append(subject, " fwc")
\* writes into the array of f.filter when the array has room after
\* "foo.>" (spare), and "foo.>" has become "foo f".
FilterAfterUnsub(subject, spare) ==
    IF mqttNeedSubForLevelUp(subject) /\ spare
    THEN Append(LevelUpSubject(subject), " f")
    ELSE subject

\* An UNSUBSCRIBE: mqttParseUnsubs, mqttProcessUnsubs with the update of
\* the session, mqttEnqueueUnsubAck.
Unsubscribe(c, subjects, spare, stored, trace) ==
    /\ conn[c].pc = "connected"
    /\ LET st == ProcessUnsubs(StartOf(c, mcons), subjects, 1)
           keys == [i \in 1..Len(subjects) |->
                       FilterAfterUnsub(subjects[i], spare)]
           u == updateSession(EnvNow, conn[c].cid, c, st.cons, keys,
                              [i \in 1..Len(subjects) |-> 0], FALSE, stored)
           c1 == [conn[c] EXCEPT !.subs = st.subs, !.cons = st.cons]
           cn == [conn EXCEPT ![c] = IF u.env.err THEN closeConnection(c1)
                                     ELSE c1]
       IN /\ conn' = cn
          /\ sessions' = u.env.sessions
          /\ slog' = u.env.slog
          /\ lastSeq' = u.env.lastSeq
          /\ mcons' = Collect(st.mcons, cn, u.env.sessions)
          /\ evt' = [op |-> "unsubscribe", c |-> c,
                     subjects |-> IF trace THEN subjects ELSE <<>>,
                     unsuback |-> ~u.env.err]
    /\ UNCHANGED sm
    /\ UNCHANGED retVars

\* --------------------------------------------------------- retained store
Topics == 1..MaxTopics          \* the subjects published with retain=1
Payloads == {"a", "b"}          \* "" is the payload of size 0
Users == {"u"}                  \* "" is a publisher without user name
RetAccounts == {"A", "B"}       \* the accounts of the publishers and subscribers

\* Sublist.Insert and Sublist.Remove: the index holds subscription objects,
\* and two objects with the same subject are two entries.
slInsert(sl, sub) == sl \cup {sub}
slRemove(sl, sub) == sl \ {sub}

\* the index's entries whose subject is the topic t
NodesOf(t) == {n \in rsl : n.subject = t}

\* Sublist.ReverseMatch: the entries of the index whose literal subject is
\* matched by the filter, one result per subscription object.  A filter is
\* given by the set of topics it matches.
ReverseMatch(sl, filter) == {n \in sl : n.subject \in filter}

\* getRetainedPublishMsgs: one stored publication per entry the reverse match
\* returns whose subject is in the map; per topic, how many are returned.
getRetainedPublishMsgs(filter) ==
    [t \in Topics |->
        IF t \in DOMAIN rmsgs
        THEN Cardinality({n \in ReverseMatch(rsl, filter) : n.subject = t})
        ELSE 0]

\* mqttHandlePubRetain for a PUBLISH with the retain flag, sent by a
\* connection of the account acc.  The store belongs to the server: the
\* account is not part of the key, and the entry's acc is a history field.
PubRetain(acc, key, payload, source) ==
    /\ payload # "" => rnext < MaxRetSubs
    /\ IF payload = ""
       THEN /\ rmsgs' = Drop(rmsgs, key)
            /\ rsl' = IF key \in DOMAIN rmsgs
                      THEN slRemove(rsl, rmsgs[key].sub) ELSE rsl
            /\ rnext' = rnext
       ELSE LET sub == [id |-> rnext + 1, subject |-> key]
            IN /\ rmsgs' = Put(rmsgs, key, [msg |-> payload, acc |-> acc,
                                            source |-> source, sub |-> sub])
               /\ rsl' = slInsert(rsl, sub)
               /\ rnext' = rnext + 1
    /\ rlast' = [rlast EXCEPT ![key] =
                   [kind |-> IF payload = "" THEN "removed" ELSE "stored",
                    msg |-> payload]]
    /\ evt' = [op |-> "pubretain", acc |-> acc, key |-> key, msg |-> payload]
    /\ UNCHANGED sessVars

\* A new subscription of a connection of the account acc:
\* mqttSerializeRetainedMsgsForSub writes one PUBLISH per stored publication
\* that getRetainedPublishMsgs returns, and mqttSendRetainedMsgsToNewSubs
\* queues them after the SUBACK.  sent: per topic, the number of PUBLISH
\* packets; msgs: per topic, the payload they carry.
RetainedReplay(acc, filter) ==
    /\ filter # {}
    /\ evt' = [op |-> "replay", acc |-> acc, filter |-> filter,
               sent |-> getRetainedPublishMsgs(filter),
               msgs |-> [t \in Topics |->
                           IF getRetainedPublishMsgs(filter)[t] > 0
                           THEN rmsgs[t].msg ELSE ""]]
    /\ UNCHANGED retVars
    /\ UNCHANGED sessVars

\* Does mqttCheckPubRetainedPerms remove the message stored under subject?
\* present: the users of the new configuration; denied: the (user, subject)
\* pairs the new permissions do not allow.
Revoked(subject, present, denied) ==
    /\ subject \in DOMAIN rmsgs
    /\ rmsgs[subject].source # ""
    /\ \/ rmsgs[subject].source \notin present
       \/ <<rmsgs[subject].source, subject>> \in denied

\* generatePubPerms(u.Permissions) reads perms.Publish.Allow: it is called
\* for the source of an entry that is a user of the new configuration, and
\* the user has no Permissions, or Permissions without Publish (noPerms).
PermsPanic(present, noPerms) ==
    \E t \in DOMAIN rmsgs :
        rmsgs[t].source # "" /\ rmsgs[t].source \in present \cap noPerms

\* mqttCheckPubRetainedPerms after a configuration reload.  The nil
\* dereference ends the process, and the store, which is in memory only,
\* with it.
CheckPubRetainedPerms(present, noPerms, denied) ==
    LET gone == {t \in Topics : Revoked(t, present, denied)}
        panic == PermsPanic(present, noPerms)
    IN
    /\ rmsgs' = IF panic THEN EmptyMap
                ELSE Restrict(rmsgs, DOMAIN rmsgs \ gone)
    /\ rsl' = IF panic THEN {} ELSE rsl \ {rmsgs[t].sub : t \in gone}
    /\ rlast' = [t \in Topics |->
                    IF panic THEN [rlast[t] EXCEPT !.kind = "lost"]
                    ELSE IF t \in gone THEN [rlast[t] EXCEPT !.kind = "revoked"]
                    ELSE rlast[t]]
    /\ rnext' = rnext
    /\ evt' = [op |-> "checkperms", gone |-> gone, panic |-> panic,
               present |-> present, noPerms |-> noPerms, denied |-> denied]
    /\ UNCHANGED sessVars

\* ---------------------------------------------------------- specifications
Init ==
    /\ conn = [c \in Conns |-> FreshConn]
    /\ sm = {}
    /\ sessions = EmptyMap
    /\ slog = EmptyMap
    /\ lastSeq = 0
    /\ mcons = EmptyMap
    /\ evt = NoEvt
    /\ rmsgs = EmptyMap
    /\ rsl = {}
    /\ rnext = 0
    /\ rlast = [t \in Topics |-> [kind |-> "none", msg |-> ""]]

\* Spec: two connections of the client "me", one filter, and a host that
\* refuses subscriptions only while a session is restored.
Connect ==
    \E c \in Conns, p \in {q \in SpecPkts : q.cid # "" \/ ~q.clean} :
        \/ \E stored \in StoreOutcomes : ConnectAccepted(c, p, stored)
        \/ \E auth \in BOOLEAN, acc \in Accounts : ConnectRefused(c, p, auth, acc)

Close ==
    \E c \in Conns :
        \/ Disconnect(c)
        \/ ConnError(c)
        \/ DupClose(c)
        \/ HandleWill(c)
        \/ WillPublish(c)
        \/ HandleClosed(c)

SubUnsub ==
    \E c \in Conns, stored \in StoreOutcomes :
        \/ \E filters \in SeqsUpTo(SubFilters(SpecFilters), MaxFilters) :
              Subscribe(c, filters, [i \in 1..Len(filters) |-> "none"],
                        stored, FALSE)
        \/ \E subjects \in SeqsUpTo(SpecFilters, MaxFilters), spare \in BOOLEAN :
              Unsubscribe(c, subjects, spare, stored, FALSE)

Next == Connect \/ Close \/ SubUnsub \/ Restart

Spec == Init /\ [][Next]_vars

\* SubSpec: one client connects and sends one-filter SUBSCRIBEs, then one
\* SUBSCRIBE of up to MaxSubFilters filters, with every refusal of the host, whose
\* packet and answer evt records.
Traced == evt.op = "subscribe" /\ evt.filters # <<>>

SubConnect ==
    /\ ~Traced
    /\ \A d \in Conns : conn[d].pc = "new"
    /\ \E c \in Conns, p \in {q \in SpecPkts : q.cid # "" /\ ~q.will},
          stored \in StoreOutcomes :
           ConnectAccepted(c, p, stored)

SubPrepare ==
    /\ ~Traced
    /\ \E c \in Conns, stored \in StoreOutcomes,
          filters \in SeqsUpTo(SubFilters(Filters), MaxFilters) :
           Subscribe(c, filters, [i \in 1..Len(filters) |-> "none"],
                     stored, FALSE)

SubSubscribe ==
    /\ ~Traced
    /\ \E c \in Conns, stored \in StoreOutcomes,
          filters \in SeqsUpTo(SubFilters(Filters), MaxSubFilters) :
           \E fails \in [1..Len(filters) -> FailKinds] :
               Subscribe(c, filters, fails, stored, TRUE)

SubNext == SubConnect \/ SubPrepare \/ SubSubscribe

SubSpec == Init /\ [][SubNext]_vars

\* WillSpec: the connections of the client "me" with every will a CONNECT
\* can carry, and every way a connection is closed.
WillConnect ==
    \E c \in Conns, p \in {q \in ConnPkts : /\ q.cid # ""
                                            /\ q.level = mqttProtoLevel
                                            /\ ~q.reserved /\ ~q.userEmpty} :
        \/ \E stored \in StoreOutcomes : ConnectAccepted(c, p, stored)
        \/ ConnectRefused(c, p, TRUE, "js")

WillNext == WillConnect \/ Close

WillSpec == Init /\ [][WillNext]_vars

RetNext ==
    \/ \E acc \in RetAccounts, key \in Topics, payload \in Payloads \cup {""},
          source \in Users \cup {""} :
          PubRetain(acc, key, payload, source)
    \/ \E acc \in RetAccounts, filter \in SUBSET Topics :
          RetainedReplay(acc, filter)
    \/ \E present \in SUBSET Users, denied \in SUBSET (Users \X Topics) :
          \E noPerms \in SUBSET present :
              CheckPubRetainedPerms(present, noPerms, denied)

RetSpec == Init /\ [][RetNext]_vars

\* --------------------------------------------------------------- delivery
MaxPpi == 2         \* identifiers allocated one by one from 0 and up to the wrap
MaxAcks == 2        \* pending acks of a connection
BurstLen == 65533   \* publications in a row that are counted and not written

AckSubjs == {"ack1", "ack2"}    \* the reply subjects of the consumer's deliveries
PubAckIds == {1, 2, 3, 65534, 65535}    \* the identifiers of the PUBACKs

\* c.mqtt.ppi++ on the uint16
NextPpi(ppi) == (ppi + 1) % 65536

\* the values of the counter from which the model allocates one more
CanCount(cl) == cl.ppi < MaxPpi \/ cl.ppi >= BurstLen

\* mqttSerializePublishMsg for the connection cl and a subscription of QoS
\* subQoS and consumer key jsConsKey: the connection afterwards, the flags
\* of the packet, the identifier allocated (0 for none), whether the length
\* counts an identifier and whether one is written.
mqttSerializePublishMsg(cl, reply, ppFlags, subQoS, jsConsKey) ==
    LET retain == IF ppFlags # 0 /\ ppFlags % 2 = mqttPubFlagRetain
                  THEN mqttPubFlagRetain ELSE 0
        pubQoS == IF ppFlags # 0 THEN mqttGetQoS(ppFlags) ELSE 0
        qos1 == subQoS > 0 /\ pubQoS > 0
        pi == IF qos1 THEN NextPpi(cl.ppi) ELSE 0
    IN [cl |-> IF qos1
               THEN [cl EXCEPT !.ppi = pi,
                               !.acks = IF reply # ""
                                        THEN Put(@, pi, [ackSubj |-> reply,
                                                         jsConsKey |-> jsConsKey])
                                        ELSE @]
               ELSE cl,
        flags |-> retain + (IF qos1 THEN mqttPubQos1 ELSE 0),
        pi |-> pi,
        lenPi |-> qos1,
        wrotePi |-> pi > 0]

\* The subscriptions of the connection c a message can be delivered to: the
\* client's own (with the granted QoS) and those on the inboxes of its
\* consumers (QoS >= 1, with the key of the consumer); at is the inbox, 0
\* for a subscription of the client's own.
NoKey == [subj |-> <<>>, fwc |-> FALSE]    \* the empty jsConsKey

DlvSubs(c) ==
    {[inbox |-> FALSE, at |-> 0, sid |-> sid, qos |-> conn[c].subs[sid],
      jsConsKey |-> NoKey] : sid \in DOMAIN conn[c].subs}
    \cup {[inbox |-> TRUE, at |-> i, sid |-> conn[c].isubs[i], qos |-> 1,
           jsConsKey |-> conn[c].isubs[i]] : i \in DOMAIN conn[c].isubs}

\* a consumer of the messages stream delivers to the inbox
Delivering(inbox) ==
    \E n \in DOMAIN mcons : mcons[n].live /\ mcons[n].deliver = inbox

\* The publishers: their kind, the flags of their publication as the
\* callback reads them, and the reply subject.  A consumer delivers with an
\* ack subject; an MQTT publication has QoS 0, 1 or (a will) 2 and its
\* retain flag was cleared by mqttHandlePubRetain; a NATS publication has
\* no flags.
Producers ==
    [kind : {"JETSTREAM"}, flags : {0}, reply : AckSubjs]
    \cup [kind : {"MQTT"}, flags : {0, 2, 4}, reply : {""}]
    \cup [kind : {"NATS"}, flags : {0}, reply : {"", "r"}]

\* the QoS of the publication as the subscriber's side accounts for it
PubQoSOf(prod) ==
    IF prod.kind = "JETSTREAM" THEN 1
    ELSE IF prod.kind = "MQTT" THEN mqttGetQoS(prod.flags)
    ELSE 0

\* mqttDeliverMsgCb for a message of the producer prod on the subscription
\* sub of the connection c
mqttDeliverMsgCb(c, sub, prod) ==
    /\ conn[c].pc = "connected"
    /\ sub \in DlvSubs(c)
    /\ prod.kind # "JETSTREAM" => ~sub.inbox
    /\ sub.inbox => Delivering(sub.at)
    /\ IF prod.kind = "JETSTREAM" /\ ~sub.inbox
       THEN /\ conn' = conn
            /\ evt' = [op |-> "nodeliver", c |-> c]
       ELSE LET ppFlags == IF prod.kind = "JETSTREAM" THEN mqttPubQos1
                           ELSE IF prod.kind = "MQTT" THEN prod.flags
                           ELSE 0
                prodIsMQTTKind == prod.kind = "MQTT"
                pQoS == IF prod.kind = "JETSTREAM" THEN 1
                        ELSE IF prodIsMQTTKind THEN mqttGetQoS(ppFlags)
                        ELSE 0
                r == mqttSerializePublishMsg(conn[c], prod.reply, ppFlags,
                                             sub.qos, sub.jsConsKey)
            IN /\ r.lenPi => CanCount(conn[c])
               /\ Cardinality(DOMAIN r.cl.acks) <= MaxAcks
               /\ conn' = [conn EXCEPT ![c] = r.cl]
               /\ evt' = [op |-> "deliver", c |-> c, kind |-> prod.kind,
                          subQoS |-> sub.qos, pubQoS |-> PubQoSOf(prod),
                          written |-> ~(prodIsMQTTKind /\ pQoS > 0
                                        /\ sub.qos > 0),
                          flags |-> r.flags, pi |-> r.pi,
                          wrotePi |-> r.wrotePi, before |-> conn[c].ppi]
    /\ UNCHANGED <<sm, sessions, slog, lastSeq, mcons>>
    /\ UNCHANGED retVars

\* BurstLen publications with QoS >= 1 of MQTT publishers reach a
\* subscription of QoS 1 of the connection c, one after the other: each
\* mqttDeliverMsgCb counts an identifier in mqttSerializePublishMsg and
\* returns without writing, the message being left to the consumer.
Burst(c, sub) ==
    /\ conn[c].pc = "connected"
    /\ sub \in DlvSubs(c)
    /\ ~sub.inbox /\ sub.qos > 0
    /\ conn[c].ppi < MaxPpi
    /\ conn' = [conn EXCEPT ![c].ppi = (@ + BurstLen) % 65536]
    /\ evt' = [op |-> "burst", c |-> c]
    /\ UNCHANGED <<sm, sessions, slog, lastSeq, mcons>>
    /\ UNCHANGED retVars

\* One retained message of flags ppFlags (the retain bit and the QoS it was
\* published with) is written for the new subscription sub of c:
\* mqttSerializeRetainedMsgsForSub, then mqttSendRetainedMsgsToNewSubs.
SerializeRetained(c, sub, ppFlags) ==
    /\ conn[c].pc = "connected"
    /\ sub \in DlvSubs(c)
    /\ ~sub.inbox
    /\ LET r == mqttSerializePublishMsg(conn[c], "", ppFlags, sub.qos,
                                        sub.jsConsKey)
       IN /\ r.lenPi => CanCount(conn[c])
          /\ conn' = [conn EXCEPT ![c] = r.cl]
          /\ evt' = [op |-> "deliver", c |-> c, kind |-> "RETAINED",
                     subQoS |-> sub.qos, pubQoS |-> mqttGetQoS(ppFlags),
                     written |-> TRUE, flags |-> r.flags, pi |-> r.pi,
                     wrotePi |-> r.wrotePi, before |-> conn[c].ppi]
    /\ UNCHANGED <<sm, sessions, slog, lastSeq, mcons>>
    /\ UNCHANGED retVars

\* mqttProcessPubAck without the look-up of the consumer
mqttProcessPubAck_NoLookup(cl, pi) ==
    IF pi \in DOMAIN cl.acks
    THEN [cl |-> [cl EXCEPT !.acks = Drop(@, pi),
                            !.ppi = IF DOMAIN Drop(cl.acks, pi) = {}
                                    THEN 0 ELSE @],
          fwd |-> <<[cons |-> 0, key |-> cl.acks[pi].jsConsKey,
                     subj |-> cl.acks[pi].ackSubj]>>]
    ELSE [cl |-> cl, fwd |-> <<>>]

\* mqttProcessPubAck: the connection afterwards and the acks forwarded, each
\* with the consumer it is processed by, the key it was found under and the
\* ack subject.
mqttProcessPubAck(cl, pi) ==
    IF pi \in DOMAIN cl.acks
    THEN [cl |-> [cl EXCEPT !.acks = Drop(@, pi),
                            !.ppi = IF DOMAIN Drop(cl.acks, pi) = {}
                                    THEN 0 ELSE @],
          fwd |-> IF cl.acks[pi].jsConsKey \in DOMAIN cl.cons
                  THEN <<[cons |-> cl.cons[cl.acks[pi].jsConsKey],
                          key |-> cl.acks[pi].jsConsKey,
                          subj |-> cl.acks[pi].ackSubj]>>
                  ELSE <<>>]
    ELSE [cl |-> cl, fwd |-> <<>>]

\* A PUBACK of the client: mqttParsePubAck, mqttProcessPubAck
PubAck(c, pi) ==
    /\ conn[c].pc = "connected"
    /\ pi # 0
    /\ conn' = [conn EXCEPT ![c] = mqttProcessPubAck(conn[c], pi).cl]
    /\ evt' = [op |-> "puback", c |-> c, pi |-> pi,
               pending |-> pi \in DOMAIN conn[c].acks,
               fwd |-> mqttProcessPubAck(conn[c], pi).fwd]
    /\ UNCHANGED <<sm, sessions, slog, lastSeq, mcons>>
    /\ UNCHANGED retVars

\* A PUBLISH of the client with QoS qos <= 1 and packet identifier pi (0 with
\* QoS 0): mqttParsePub, mqttProcessPub, mqttEnqueuePubAck.  appended: did
\* directProcessInboundJetStreamMsg store the message in the messages
\* stream?  Nothing of it comes back to mqttProcessPub.
Publish(c, qos, pi, appended) ==
    /\ conn[c].pc = "connected"
    /\ qos <= 1
    /\ (qos > 0) <=> (pi # 0)
    /\ evt' = [op |-> "publish", c |-> c, qos |-> qos, pi |-> pi,
               stored |-> qos > 0 /\ appended,
               puback |-> IF pi > 0 THEN pi ELSE 0]
    /\ UNCHANGED sessVars
    /\ UNCHANGED retVars

\* DlvSpec: one client with a clean session subscribes to and unsubscribes
\* from one filter, receives messages of every kind of publisher, and
\* sends PUBLISH and PUBACK packets.
DlvFilters == {<<"bar">>}

DlvConnect ==
    /\ \A d \in Conns : conn[d].pc = "new"
    /\ \E c \in Conns, p \in {q \in SpecPkts : q.cid # "" /\ ~q.will /\ q.clean},
          stored \in StoreOutcomes :
          ConnectAccepted(c, p, stored)

DlvSubUnsub ==
    \E c \in Conns, stored \in StoreOutcomes :
        \/ \E filters \in SeqsUpTo(SubFilters(DlvFilters), 1) :
              Subscribe(c, filters, [i \in 1..Len(filters) |-> "none"],
                        stored, FALSE)
        \/ \E subjects \in SeqsUpTo(DlvFilters, 1) :
              Unsubscribe(c, subjects, FALSE, stored, FALSE)

DlvDeliver ==
    \E c \in Conns :
        \/ \E sub \in DlvSubs(c), prod \in Producers :
              mqttDeliverMsgCb(c, sub, prod)
        \/ \E sub \in DlvSubs(c) : Burst(c, sub)
        \/ \E sub \in DlvSubs(c), ppFlags \in {1, 3, 5} :
              SerializeRetained(c, sub, ppFlags)

DlvInbound ==
    \E c \in Conns :
        \/ \E pi \in PubAckIds : PubAck(c, pi)
        \/ \E qos \in 0..1, pi \in {0, 1}, appended \in BOOLEAN :
              Publish(c, qos, pi, appended)

DlvNext == DlvConnect \/ DlvSubUnsub \/ DlvDeliver \/ DlvInbound

DlvSpec == Init /\ [][DlvNext]_vars

\* ------------------------------------------- SUBSCRIBE and its publishers
MaxOut == 4         \* packets in the outbound queue of a connection

\* The packets of the outbound queue: the SUBACK of the subscriptions subs,
\* and the PUBLISH written for the subscription sid (for a consumer's inbox,
\* the subscription the consumer serves), a retained message or not, queued
\* by the SUBSCRIBE handler or by the delivery callback.
SubAckPkt(subs) == [k |-> "SUBACK", subs |-> subs]
PublishPkt(sid, retained, by) ==
    [k |-> "PUBLISH", sid |-> sid, retained |-> retained, by |-> by]

\* the subs slice mqttProcessSubs returns for the filters from the i-th on
RECURSIVE SubsOf(_, _)
SubsOf(filters, i) ==
    IF i > Len(filters) THEN <<>>
    ELSE (IF mqttNeedSubForLevelUp(filters[i].filter)
          THEN <<FwcSid(LevelUpSubject(filters[i].filter)),
                 Sid(filters[i].filter)>>
          ELSE <<Sid(filters[i].filter)>>) \o SubsOf(filters, i + 1)

\* mqttSendRetainedMsgsToNewSubs: the retained buffers of subs from the
\* i-th on that are still pending
RECURSIVE mqttSendRetainedMsgsToNewSubs(_, _, _)
mqttSendRetainedMsgsToNewSubs(subs, prm, i) ==
    IF i > Len(subs) THEN <<>>
    ELSE (IF subs[i] \in prm THEN <<PublishPkt(subs[i], TRUE, "handler")>>
          ELSE <<>>) \o mqttSendRetainedMsgsToNewSubs(subs, prm, i + 1)

\* the retained buffers queued first and the SUBACK after them
SubAckAndRetained_RetainedFirst(out, subs, prm) ==
    out \o mqttSendRetainedMsgsToNewSubs(subs, prm, 1)
        \o <<SubAckPkt(Range(subs))>>

\* mqttEnqueueSubAck, then mqttSendRetainedMsgsToNewSubs
SubAckAndRetained(out, subs, prm) ==
    out \o <<SubAckPkt(Range(subs))>>
        \o mqttSendRetainedMsgsToNewSubs(subs, prm, 1)

\* A SUBSCRIBE up to the return of the loop of mqttProcessSubs: for each
\* filter the retained messages that match are serialized in the new
\* subscription's prm (retained: the subscriptions that have some), and the
\* subscription is registered.  Publishers' messages match it from now on.
SubscribeBegin(c, filters, retained) ==
    /\ conn[c].pc = "connected"
    /\ conn[c].ps.subs = <<>>
    /\ \A i \in 1..Len(filters) :
          Sid(filters[i].filter) \notin DOMAIN conn[c].subs
    /\ \A i, j \in 1..Len(filters) :
          filters[i].filter = filters[j].filter => i = j
    /\ retained \subseteq Range(SubsOf(filters, 1))
    /\ LET st == ProcessSubs(StartOf(c, mcons), c, filters,
                             [i \in 1..Len(filters) |-> "none"], 1)
           cn == [conn EXCEPT ![c] =
                     [@ EXCEPT !.subs = st.subs, !.cons = st.cons,
                               !.isubs = st.isubs, !.prm = retained,
                               !.ps = [subs |-> SubsOf(filters, 1),
                                       keys |-> [i \in 1..Len(filters) |->
                                                    filters[i].filter],
                                       res |-> st.res]]]
       IN /\ ~st.stuck
          /\ conn' = cn
          /\ mcons' = Collect(st.mcons, cn, sessions)
          /\ evt' = [op |-> "subbegin", c |-> c]
    /\ UNCHANGED <<sm, sessions, slog, lastSeq>>
    /\ UNCHANGED retVars

\* The rest of the SUBSCRIBE: the update of the session at the end of
\* mqttProcessSubs, then mqttEnqueueSubAck and
\* mqttSendRetainedMsgsToNewSubs unless the update failed.
SubscribeEnd(c, stored) ==
    /\ conn[c].pc = "connected"
    /\ conn[c].ps.subs # <<>>
    /\ LET ps == conn[c].ps
           u == updateSession(EnvNow, conn[c].cid, c, conn[c].cons, ps.keys,
                              ps.res, TRUE, stored)
           c1 == [conn[c] EXCEPT
                     !.ps = FreshConn.ps,
                     !.prm = IF u.env.err THEN @ ELSE @ \ Range(ps.subs),
                     !.out = IF u.env.err THEN @
                             ELSE SubAckAndRetained(@, ps.subs, conn[c].prm)]
           cn == [conn EXCEPT ![c] = IF u.env.err THEN closeConnection(c1)
                                     ELSE c1]
       IN IF u.panic THEN Crashed("panic", c)
          ELSE /\ conn' = cn
               /\ sessions' = u.env.sessions
               /\ slog' = u.env.slog
               /\ lastSeq' = u.env.lastSeq
               /\ mcons' = Collect(mcons, cn, u.env.sessions)
               /\ sm' = sm
               /\ evt' = [op |-> "subend", c |-> c, suback |-> ~u.env.err]
    /\ UNCHANGED retVars

\* a message of the messages stream is written whatever the subscription
NotFromInbox_Never(kind, inbox) == FALSE

\* mqttDeliverMsgCb returns at once for a message of the messages stream
\* (kind JETSTREAM) on a subscription whose subject does not start with
\* mqttSubPrefix, that is, which is not a consumer's inbox.
NotFromInbox(kind, inbox) == kind = "JETSTREAM" /\ ~inbox

\* mqttDeliverMsgCb with the outbound queue: the message of the producer
\* prod reaches the subscription sub of c, at any moment after the
\* subscription is registered.  Unless the message is left to the consumer,
\* the pending retained buffer of the subscription is queued, then the
\* message.
DeliverLive(c, sub, prod) ==
    /\ conn[c].pc = "connected"
    /\ sub \in DlvSubs(c)
    /\ prod.kind # "JETSTREAM" => ~sub.inbox
    /\ sub.inbox => Delivering(sub.at)
    /\ Len(conn[c].out) + 2 <= MaxOut
    /\ LET ppFlags == IF prod.kind = "JETSTREAM" THEN mqttPubQos1
                      ELSE IF prod.kind = "MQTT" THEN prod.flags
                      ELSE 0
           prodIsMQTTKind == prod.kind = "MQTT"
           pQoS == IF prod.kind = "JETSTREAM" THEN 1
                   ELSE IF prodIsMQTTKind THEN mqttGetQoS(ppFlags)
                   ELSE 0
           r == mqttSerializePublishMsg(conn[c], prod.reply, ppFlags,
                                        sub.qos, sub.jsConsKey)
           refused == NotFromInbox(prod.kind, sub.inbox)
           written == ~refused
                      /\ ~(prodIsMQTTKind /\ pQoS > 0 /\ sub.qos > 0)
           flush == ~sub.inbox /\ sub.sid \in conn[c].prm
       IN /\ (~refused /\ r.lenPi) => CanCount(conn[c])
          /\ Cardinality(DOMAIN r.cl.acks) <= MaxAcks
          /\ conn' = [conn EXCEPT ![c] =
                        IF refused THEN conn[c]
                        ELSE IF written
                        THEN [r.cl EXCEPT
                                !.prm = IF flush THEN @ \ {sub.sid} ELSE @,
                                !.out = @ \o (IF flush
                                              THEN <<PublishPkt(sub.sid, TRUE,
                                                                "callback")>>
                                              ELSE <<>>)
                                          \o <<PublishPkt(sub.sid, FALSE,
                                                          "callback")>>]
                        ELSE r.cl]
          /\ evt' = [op |-> "live", c |-> c, kind |-> prod.kind,
                     inbox |-> sub.inbox, sid |-> sub.sid,
                     subQoS |-> sub.qos, pubQoS |-> PubQoSOf(prod),
                     written |-> written]
    /\ UNCHANGED <<sm, sessions, slog, lastSeq, mcons>>
    /\ UNCHANGED retVars

\* the subscriptions a SUBSCRIBE for Filters can create
OrdSids ==
    {Sid(f) : f \in Filters}
    \cup {FwcSid(LevelUpSubject(f)) :
             f \in {g \in Filters : mqttNeedSubForLevelUp(g)}}

\* OrdSpec: one client with a clean session sends SUBSCRIBEs for new
\* subscriptions while publishers of every kind publish on their subjects.
OrdConnect ==
    /\ \A d \in Conns : conn[d].pc = "new"
    /\ \E c \in Conns, p \in {q \in SpecPkts : q.cid # "" /\ ~q.will /\ q.clean},
          stored \in StoreOutcomes :
          ConnectAccepted(c, p, stored)

OrdSubscribe ==
    \E c \in Conns :
        \/ \E filters \in SeqsUpTo(SubFilters(Filters), MaxFilters),
              retained \in SUBSET OrdSids :
              SubscribeBegin(c, filters, retained)
        \/ \E stored \in StoreOutcomes : SubscribeEnd(c, stored)

OrdDeliver ==
    \E c \in Conns : \E sub \in DlvSubs(c), prod \in Producers :
        DeliverLive(c, sub, prod)

OrdNext == OrdConnect \/ OrdSubscribe \/ OrdDeliver

OrdSpec == Init /\ [][OrdNext]_vars

\* ------------------------------------------- CONNECT and its publishers
MaxResOut == 1      \* packets queued before a delivery (ResSpec)

\* the CONNACK in the outbound queue
ConnAckPkt == [k |-> "CONNACK"]

HasConnAck(c) ==
    \E i \in 1..Len(conn[c].out) : conn[c].out[i].k = "CONNACK"

\* mqttProcessConnect has returned to mqttParse, which calls
\* mqttEnqueueConnAck: the CONNACK is queued.
EnqueueConnAck(c) ==
    /\ conn[c].pc = "connected"
    /\ ~HasConnAck(c)
    /\ conn' = [conn EXCEPT ![c].out = Append(@, ConnAckPkt)]
    /\ evt' = [op |-> "connack", c |-> c]
    /\ UNCHANGED <<sm, sessions, slog, lastSeq, mcons>>
    /\ UNCHANGED retVars

\* ResSpec: the connections of the client "me", each after the close of the
\* one before, with a session that is resumed.  The CONNECT handler is taken in two steps,
\* mqttProcessConnect (which registers the subscriptions of the session)
\* and the queueing of the CONNACK; the consumers and the publishers
\* deliver at any moment to the subscriptions that are registered.  The
\* client sends its next packet once it has the CONNACK.
ResFilters == {<<"bar">>}

ResConnect ==
    \E c \in Conns, p \in {q \in SpecPkts : q.cid # "" /\ ~q.will},
       stored \in StoreOutcomes :
        /\ \A d \in Conns : conn[d].pc \in {"new", "closed"}
        /\ ConnectAccepted(c, p, stored)

ResConnAck == \E c \in Conns : EnqueueConnAck(c)

ResSubscribe ==
    \E c \in Conns, stored \in StoreOutcomes,
       filters \in SeqsUpTo(SubFilters(ResFilters), 1) :
        /\ HasConnAck(c)
        /\ Subscribe(c, filters, [i \in 1..Len(filters) |-> "none"],
                     stored, FALSE)

ResClose ==
    \E c \in Conns :
        \/ HasConnAck(c) /\ Disconnect(c)
        \/ HandleWill(c)
        \/ HandleClosed(c)

\* a consumer's delivery of a stored message, and a NATS publication
ResProducers == {prod \in Producers : prod.reply \in {"", "ack1"}
                                      /\ prod.kind # "MQTT"}

ResDeliver ==
    \E c \in Conns : \E sub \in DlvSubs(c), prod \in ResProducers :
        /\ Len(conn[c].out) <= MaxResOut
        /\ DeliverLive(c, sub, prod)

ResNext == ResConnect \/ ResConnAck \/ ResSubscribe \/ ResClose \/ ResDeliver

ResSpec == Init /\ [][ResNext]_vars

\* ------------------------------------------------------ topic conversion
MaxTopicLen == 3    \* bytes of a topic name or of a subject

mqttTopicLevelSep == "/"
mqttSingleLevelWC == "+"
mqttMultiLevelWC == "#"
btsep == "."

\* the bytes topics are made of, and the strings of 1..n of them
TopicBytes == {mqttTopicLevelSep, btsep, " ", "_", "a",
               mqttSingleLevelWC, mqttMultiLevelWC}
Strings(n) == UNION {[1..k -> TopicBytes] : k \in 1..n}
HasWildcard(mt) ==
    \E i \in 1..Len(mt) : mt[i] \in {mqttSingleLevelWC, mqttMultiLevelWC}

\* the loop of mqttToNATSSubjectConversion from byte i on, res being what
\* is written so far (i is 1-based; res[0..j) of the code)
RECURSIVE ConvertFrom(_, _, _, _)
ConvertFrom(mt, wcOk, i, res) ==
    IF i > Len(mt) THEN [err |-> FALSE, res |-> res]
    ELSE IF mt[i] = btsep
         THEN ConvertFrom(mt, wcOk, i + 1, res \o <<mqttTopicLevelSep>>)
    ELSE IF mt[i] = mqttTopicLevelSep
         THEN IF i = 1
              THEN ConvertFrom(mt, wcOk, i + 1, <<mqttTopicLevelSep, btsep>>)
              ELSE IF i = Len(mt)
                   THEN ConvertFrom(mt, wcOk, i + 1,
                                    res \o <<btsep, mqttTopicLevelSep>>)
                   ELSE ConvertFrom(mt, wcOk, i + 1, res \o <<btsep>>)
    ELSE IF mt[i] = " "
         THEN ConvertFrom(mt, wcOk, i + 1, res \o <<"_">>)
    ELSE IF mt[i] \in {mqttSingleLevelWC, mqttMultiLevelWC}
         THEN IF ~wcOk THEN [err |-> TRUE, res |-> <<>>]
              ELSE ConvertFrom(mt, wcOk, i + 1,
                               res \o <<IF mt[i] = mqttSingleLevelWC
                                        THEN "*" ELSE ">">>)
    ELSE ConvertFrom(mt, wcOk, i + 1, res \o <<mt[i]>>)

\* Converts an MQTT Topic Name or Filter to a NATS Subject
mqttToNATSSubjectConversion(mt, wcOk) ==
    IF Len(mt) = 1 /\ mt[1] = mqttTopicLevelSep
    THEN [err |-> FALSE, res |-> mt]
    ELSE ConvertFrom(mt, wcOk, 1, <<>>)

mqttTopicToNATSPubSubject(mt) == mqttToNATSSubjectConversion(mt, FALSE)

\* the byte the loop of mqttFromNATSPubSubject writes for the byte b
FromByte(b) ==
    IF b = mqttTopicLevelSep THEN btsep
    ELSE IF b = btsep THEN mqttTopicLevelSep
    ELSE IF b = "_" THEN " "
    ELSE b

mqttFromNATSPubSubject(subject) ==
    IF Len(subject) = 1 /\ subject[1] = mqttTopicLevelSep THEN subject
    ELSE LET n == Len(subject)
             pre == n > 2 /\ subject[1] = mqttTopicLevelSep
                          /\ subject[2] = btsep
             suf == n > 2 /\ subject[n - 1] = btsep
                          /\ subject[n] = mqttTopicLevelSep
             \* topic = topic[1:]; topic[0] = '/'
             t1 == IF pre THEN <<mqttTopicLevelSep>> \o SubSeq(subject, 3, n)
                   ELSE subject
             start == IF pre THEN 1 ELSE 0
             \* topic = topic[:len(topic)-1]; end = len(topic)-1;
             \* topic[end] = '/'
             t2 == IF suf
                   THEN [SubSeq(t1, 1, Len(t1) - 1)
                           EXCEPT ![Len(t1) - 1] = mqttTopicLevelSep]
                   ELSE t1
             end == IF suf THEN Len(t2) - 1 ELSE Len(t1)
         IN [i \in 1..Len(t2) |->
               IF start <= i - 1 /\ i - 1 < end THEN FromByte(t2[i])
               ELSE t2[i]]

\* A topic name is converted to a subject, the subject back to a topic,
\* and that topic to a subject again.
ConvertTopic(mt) ==
    /\ evt.op = "none"
    /\ LET f == mqttTopicToNATSPubSubject(mt)
           back == IF f.err THEN <<>> ELSE mqttFromNATSPubSubject(f.res)
           again == IF f.err \/ back = <<>> \/ HasWildcard(back)
                    THEN [err |-> TRUE, res |-> <<>>]
                    ELSE mqttTopicToNATSPubSubject(back)
       IN evt' = [op |-> "topic", mt |-> mt, err |-> f.err, subject |-> f.res,
                  back |-> back, again |-> again]
    /\ UNCHANGED sessVars
    /\ UNCHANGED retVars

\* A filter is converted to a subject.
ConvertFilter(mt) ==
    /\ evt.op = "none"
    /\ LET f == mqttToNATSSubjectConversion(mt, TRUE)
       IN evt' = [op |-> "filter", mt |-> mt, err |-> f.err,
                  subject |-> f.res]
    /\ UNCHANGED sessVars
    /\ UNCHANGED retVars

ConvNext ==
    \/ \E mt \in Strings(MaxTopicLen) : ConvertTopic(mt)
    \/ \E mt \in Strings(MaxTopicLen) : ConvertFilter(mt)

ConvSpec == Init /\ [][ConvNext]_vars

\* ------------------------------------------------------------- dispatcher
MaxBuf == 2         \* packets in one read buffer

mqttPacketConnect == 16
mqttPacketPub == 48
mqttPacketPubAck == 64
mqttPacketPubRec == 80
mqttPacketPubRel == 96
mqttPacketPubComp == 112
mqttPacketSub == 128
mqttPacketUnsub == 160
mqttPacketPing == 192
mqttPacketDisconnect == 224

\* b & mqttPacketMask for every first byte b
PacketTypes == {b - (b % 16) : b \in 0..255}

\* The packets of a read buffer: the type, the QoS bits of a PUBLISH, and
\* whether the packet's own parsing and processing succeed (a PINGREQ and a
\* DISCONNECT cannot fail; a packet without handler has nothing to run).
Packets ==
    {p \in [pt : PacketTypes, qos : 0..3, ok : BOOLEAN] :
        /\ p.pt # mqttPacketPub => p.qos = 0
        /\ p.pt \notin {mqttPacketConnect, mqttPacketPub, mqttPacketPubAck,
                        mqttPacketSub, mqttPacketUnsub} => p.ok
        /\ p.qos > 1 => p.ok}

\* a packet is never refused for coming before the CONNECT
NotConnected_Never(connected, pt) == FALSE

\* "If client was not connected yet, the first packet must be a
\* mqttPacketConnect otherwise we fail the connection."
NotConnected(connected, pt) == ~connected /\ pt # mqttPacketConnect

\* mqttParsePub: is the QoS of the PUBLISH supported?
mqttParsePubQoS(p) == p.qos <= 1

\* The loop of mqttParse from the packet i of buf on: handled are the
\* packets whose processing has run, err whether the loop ended with an
\* error, connected the flag as the loop leaves it.
RECURSIVE ParseFrom(_, _, _, _)
ParseFrom(connected, buf, i, handled) ==
    LET done(e) == [handled |-> handled, err |-> e, connected |-> connected]
        next(c) == ParseFrom(c, buf, i + 1, handled \cup {i})
    IN IF i > Len(buf) THEN done(FALSE)
       ELSE IF NotConnected(connected, buf[i].pt) THEN done(TRUE)
       ELSE IF buf[i].pt = mqttPacketPub
       THEN IF mqttParsePubQoS(buf[i]) /\ buf[i].ok THEN next(connected)
            ELSE done(TRUE)
       ELSE IF buf[i].pt \in {mqttPacketPubAck, mqttPacketSub, mqttPacketUnsub}
       THEN IF buf[i].ok THEN next(connected) ELSE done(TRUE)
       ELSE IF buf[i].pt = mqttPacketPing THEN next(connected)
       ELSE IF buf[i].pt = mqttPacketConnect
       THEN IF connected THEN done(TRUE)
            ELSE IF buf[i].ok THEN next(TRUE)
            ELSE done(TRUE)
       ELSE IF buf[i].pt = mqttPacketDisconnect
       THEN [handled |-> handled \cup {i}, err |-> FALSE,
             connected |-> connected]
       ELSE done(TRUE)

\* mqttParse of the read buffer buf on a connection whose connectReceived
\* flag is connected
mqttParse(connected, buf) == ParseFrom(connected, buf, 1, {})

Parse(connected, buf) ==
    /\ evt' = [op |-> "parse", connected |-> connected, buf |-> buf,
               handled |-> mqttParse(connected, buf).handled,
               err |-> mqttParse(connected, buf).err,
               after |-> mqttParse(connected, buf).connected]
    /\ UNCHANGED sessVars
    /\ UNCHANGED retVars

\* ParseSpec: every read buffer of up to MaxBuf packets, on a connection
\* that has or has not had its CONNECT accepted.  The dispatcher keeps
\* nothing from one buffer to the next but the connectReceived flag, which
\* is an input here: one buffer is parsed per behaviour.
ParseNext ==
    /\ evt.op = "none"
    /\ \E connected \in BOOLEAN, buf \in SeqsUpTo(Packets, MaxBuf) :
          Parse(connected, buf)

ParseSpec == Init /\ [][ParseNext]_vars

\* -------------------------------------------------------------- keep alive
\* keep-alive values of a CONNECT packet (uint16, in seconds)
KeepAlives == {0, 1, 2, 3, 65534, 65535}

\* mqttParseConnect: cp.rd for the keep-alive ka, in milliseconds.  The
\* conversion of float64(ka)*1.5 to a time.Duration drops the fraction.
mqttConnectRd(ka) == IF ka > 0 THEN ((ka * 3) \div 2) * 1000 ELSE 0

\* mqttParse of the read buffer buf and the read deadline: connected is the
\* connectReceived flag and k the keep-alive of the accepted CONNECT (cp is
\* nil before it), ka the keep-alive of the CONNECT packets of buf.  cleared:
\* the deadline is removed on entry; armed: the duration of the deadline set
\* on return, 0 if none is set.
KeepAliveParse(connected, k, ka, buf) ==
    /\ ~connected => k = 0
    /\ (\A i \in 1..Len(buf) : buf[i].pt # mqttPacketConnect) => ka = 0
    /\ LET r == mqttParse(connected, buf)
           rd0 == IF connected THEN mqttConnectRd(k) ELSE 0
           accepted == ~connected /\ r.connected
           rd == IF accepted THEN mqttConnectRd(ka) ELSE rd0
           disc == \E i \in r.handled : buf[i].pt = mqttPacketDisconnect
       IN evt' = [op |-> "keepalive", buf |-> buf,
                  connected |-> r.connected,
                  accepted |-> accepted,
                  k |-> IF accepted THEN ka ELSE k,
                  err |-> r.err, disc |-> disc,
                  cleared |-> rd0 > 0,
                  armed |-> IF ~r.err /\ ~disc /\ rd > 0 THEN rd ELSE 0]
    /\ UNCHANGED sessVars
    /\ UNCHANGED retVars

\* KaSpec: one read buffer per behaviour, on a connection that has or has
\* not had a CONNECT accepted.
KaNext ==
    /\ evt.op = "none"
    /\ \E connected \in BOOLEAN, k \in KeepAlives, ka \in KeepAlives,
          buf \in SeqsUpTo(Packets, MaxBuf) :
          KeepAliveParse(connected, k, ka, buf)

KaSpec == Init /\ [][KaNext]_vars

\* --------------------------------------------------- inbox subscriptions
\* The filter "$MQTT/sub/#" as mqttFilterToNATSSubject translates it:
\* "$MQTT.sub.>", which matches every subject mqttSubPrefix + nuid.
InboxWildcard == <<"$MQTT", "sub", ">">>

\* bytes.HasPrefix(sub.subject, []byte(mqttSubPrefix)) for a subscription
\* of the client's own: "$MQTT.sub" followed by a dot
HasSubPrefix(subject) ==
    Len(subject) >= 3 /\ subject[1] = "$MQTT" /\ subject[2] = "sub"

\* The consumer that delivers to the inbox of the connection c delivers a
\* message, and the host hands it to the subscription sub of the
\* connection d, whose subject matches the inbox subject: the inbox
\* subscription itself, or a subscription on "$MQTT.sub.>".
\* mqttDeliverMsgCb then runs for sub.
InboxDeliver(c, inbox, d, sub) ==
    /\ conn[c].pc = "connected" /\ conn[d].pc = "connected"
    /\ inbox \in DOMAIN conn[c].isubs
    /\ Delivering(inbox)
    /\ sub \in DlvSubs(d)
    /\ IF sub.inbox THEN d = c /\ sub.at = inbox
       ELSE ~sub.sid.fwc /\ sub.sid.subj = InboxWildcard
    /\ Len(conn[d].out) < MaxOut
    /\ LET refused == ~(sub.inbox \/ HasSubPrefix(sub.sid.subj))
           r == mqttSerializePublishMsg(conn[d], "ack1", mqttPubQos1,
                                        sub.qos, sub.jsConsKey)
       IN /\ (~refused /\ r.lenPi) => CanCount(conn[d])
          /\ Cardinality(DOMAIN r.cl.acks) <= MaxAcks
          /\ conn' = [conn EXCEPT ![d] =
                        IF refused THEN conn[d]
                        ELSE [r.cl EXCEPT
                                 !.out = Append(@, PublishPkt(sub.sid, FALSE,
                                                              "callback"))]]
          /\ evt' = [op |-> "inboxdeliver", owner |-> c, c |-> d,
                     inbox |-> sub.inbox, sid |-> sub.sid,
                     written |-> ~refused, pi |-> r.pi]
    /\ UNCHANGED <<sm, sessions, slog, lastSeq, mcons>>
    /\ UNCHANGED retVars

\* InboxSpec: the client "me" and a client with a generated ID subscribe
\* to bar and to "$MQTT/sub/#", and consumers deliver.
InboxFilters == {<<"bar">>, InboxWildcard}

InboxConnect ==
    \E c \in Conns, p \in {q \in SpecPkts : ~q.will /\ q.clean},
       stored \in StoreOutcomes :
        /\ \A d \in Conns : conn[d].cid # p.cid \/ p.cid = ""
        /\ ConnectAccepted(c, p, stored)

InboxSubscribe ==
    \E c \in Conns, stored \in StoreOutcomes,
       filters \in SeqsUpTo(SubFilters(InboxFilters), 1) :
        /\ Sid(filters[1].filter) \notin DOMAIN conn[c].subs
        /\ Subscribe(c, filters, [i \in 1..Len(filters) |-> "none"],
                     stored, FALSE)

InboxNext ==
    \/ InboxConnect
    \/ InboxSubscribe
    \/ \E c \in Conns, d \in Conns :
          \E inbox \in DOMAIN conn[c].isubs, sub \in DlvSubs(d) :
              InboxDeliver(c, inbox, d, sub)

InboxSpec == Init /\ [][InboxNext]_vars

\* ------------------------------------------------------- crash in a save
\* The server stops inside saveSession, between StoreMsg and the DeleteMsg of
\* the record it replaces, while it handles a SUBSCRIBE (add) or an
\* UNSUBSCRIBE of the connection c: the new record is in the sessions
\* stream, the old one is still there, and what is in memory is gone.
SaveCrash(c, filters, add) ==
    /\ conn[c].pc = "connected"
    /\ BoundTo(c)
    /\ lastSeq < MaxSeq
    /\ LET subjects == [i \in 1..Len(filters) |-> filters[i].filter]
           st == IF add
                 THEN ProcessSubs(StartOf(c, mcons), c, filters,
                                  [i \in 1..Len(filters) |-> "none"], 1)
                 ELSE ProcessUnsubs(StartOf(c, mcons), subjects, 1)
           res == IF add THEN st.res ELSE [i \in 1..Len(filters) |-> 0]
           es == sessions[conn[c].cid]
           a == ApplyFilters([subs |-> es.subs, nil |-> es.subsNil,
                              need |-> FALSE, panic |-> FALSE],
                             subjects, res, add, 1)
           ps == [id |-> conn[c].cid, clean |-> es.clean, subs |-> a.subs,
                  cons |-> st.cons]
       IN /\ ~st.stuck /\ ~a.panic /\ a.need
          /\ slog' = Put(slog, lastSeq + 1, ps)
          /\ lastSeq' = lastSeq + 1
          /\ mcons' = Restrict(st.mcons,
                               {n \in DOMAIN st.mcons : st.mcons[n].live})
    /\ conn' = [d \in Conns |-> IF conn[d].pc = "new" THEN conn[d]
                                ELSE ClosedConn(FreshConn)]
    /\ sm' = {}
    /\ sessions' = EmptyMap
    /\ evt' = [op |-> "savecrash", c |-> c]
    /\ UNCHANGED retVars

\* RecSpec: Spec, with a server that can also stop inside a save.
RecNext ==
    \/ Next
    \/ \E c \in Conns, add \in BOOLEAN,
          filters \in SeqsUpTo(SubFilters(SpecFilters), MaxFilters) :
            SaveCrash(c, filters, add)

RecSpec == Init /\ [][RecNext]_vars

\* ------------------------------------------------------------------- locks
\* The four locks: mqttSessionManager.mu (an RWMutex), the account session
\* manager's mu, client.mu of each connection and mqttRetained.mu (an
\* RWMutex).  A goroutine is the readLoop of a connection; path is what is
\* left of the handler it runs, as the lock operations of the handler in
\* program order, held the locks it holds in the order it acquired them.
smLock == [k |-> "sm", c |-> 0]
asmLock == [k |-> "asm", c |-> 0]
rmLock == [k |-> "rm", c |-> 0]
cLock(c) == [k |-> "c", c |-> c]

\* mu.Lock() ... mu.Unlock() and mu.RLock() ... mu.RUnlock() around body
Locked(l, body) ==
    <<[a |-> "lock", l |-> l]>> \o body \o <<[a |-> "unlock", l |-> l]>>
RLocked(l, body) ==
    <<[a |-> "rlock", l |-> l]>> \o body \o <<[a |-> "unlock", l |-> l]>>

\* mqttProcessSubs for one filter: under the read lock of the retained
\* store, mqttSerializeRetainedMsgsForSub (mqttSerializePublishMsg locks
\* the client) and mqttProcessJSConsumerForSubject; then mqttAddJSConsumer.
mqttProcessSubsLocks(c) ==
    RLocked(rmLock, Locked(cLock(c), <<>>) \o Locked(cLock(c), <<>>))
    \o Locked(cLock(c), <<>>)

\* mqttSessionManager.updateSession, mqttAccountSessionManager.updateSession
\* and saveSession
updateSessionLocks(c) ==
    Locked(cLock(c), <<>>) \o RLocked(smLock, <<>>)
    \o Locked(asmLock, Locked(cLock(c), <<>>))

\* mqttHandlePubRetain holding the client's lock
mqttHandlePubRetainLocks_UnderClientLock(c) ==
    Locked(cLock(c), Locked(rmLock, <<>>))

\* mqttHandlePubRetain: no client lock is held on entry
mqttHandlePubRetainLocks(c) == Locked(rmLock, <<>>)

\* The handlers the readLoop of c runs, ec being another connection: the
\* CONNECT that creates the session and the one that finds it bound to ec,
\* mqttHandleClosedClient, SUBSCRIBE, UNSUBSCRIBE, a PUBLISH with the
\* retain flag, and mqttDeliverMsgCb for a subscription of ec.
LockPaths(c, ec) ==
    LET getOrCreate == Locked(cLock(c), <<>>) \o RLocked(smLock, <<>>)
                       \o Locked(smLock, <<>>)
    IN {Locked(cLock(c), <<>>) \o getOrCreate
          \o Locked(asmLock, Locked(cLock(c), <<>>) \o Locked(cLock(c), <<>>)),
        Locked(cLock(c), <<>>) \o getOrCreate
          \o Locked(asmLock, Locked(cLock(ec), <<>>) \o Locked(cLock(c), <<>>)
                               \o mqttProcessSubsLocks(c)),
        Locked(cLock(c), <<>>) \o RLocked(smLock, <<>>)
          \o Locked(asmLock, Locked(cLock(c), <<>>)),
        mqttProcessSubsLocks(c) \o updateSessionLocks(c)
          \o Locked(cLock(c), <<>>) \o Locked(cLock(c), <<>>),
        Locked(cLock(c), <<>>) \o updateSessionLocks(c)
          \o Locked(cLock(c), <<>>),
        mqttHandlePubRetainLocks(c),
        Locked(cLock(ec), <<>>) \o Locked(cLock(ec), <<>>)}

\* the goroutines holding the lock l, in any mode or as writers
Holders(l, modes) ==
    {g \in Conns : \E i \in 1..Len(conn[g].held) :
                      conn[g].held[i].l = l /\ conn[g].held[i].a \in modes}

\* the readLoop of g starts a handler
StartPath(g, path) ==
    /\ conn[g].path = <<>>
    /\ conn' = [conn EXCEPT ![g].path = path]
    /\ evt' = [op |-> "handler", g |-> g]
    /\ UNCHANGED <<sm, sessions, slog, lastSeq, mcons>>
    /\ UNCHANGED retVars

\* The next lock operation of the handler g runs.  Lock waits until nobody
\* holds the lock, RLock until no writer does.
LockStep(g) ==
    /\ conn[g].path # <<>>
    /\ LET o == Head(conn[g].path) IN
       /\ o.a = "lock" => Holders(o.l, {"lock", "rlock"}) = {}
       /\ o.a = "rlock" => Holders(o.l, {"lock"}) = {}
       /\ conn' = [conn EXCEPT
                     ![g].path = Tail(@),
                     ![g].held = IF o.a = "unlock"
                                 THEN SelectSeq(@, LAMBDA h : h.l # o.l)
                                 ELSE Append(@, o)]
       /\ evt' = [op |-> "lockop", g |-> g, a |-> o.a, l |-> o.l]
    /\ UNCHANGED <<sm, sessions, slog, lastSeq, mcons>>
    /\ UNCHANGED retVars

LockNext ==
    \E g \in Conns :
        \/ \E ec \in Conns \ {g} :
              \E path \in LockPaths(g, ec) : StartPath(g, path)
        \/ LockStep(g)

LockSpec == Init /\ [][LockNext]_vars

\* ------------------------------------------------------------------ claims
\* The sessions a CONNECT finds: those in memory, or those the recovery
\* loop rebuilds when the account has no session manager yet.
SessionsFound == IF "js" \in sm THEN sessions ELSE asmInit.sessions

\* This step is the accepted CONNECT of c.
Connects(c) == conn[c].pc = "new" /\ conn'[c].pc = "connected"

\* The filter a subscription identifier was made for.
FilterOf(sid) == IF sid.fwc THEN Append(sid.subj, ">") ELSE sid.subj

RecordsOf(log, id) == {q \in DOMAIN log : log[q].id = id}

\* C1: once a CONNECT has found the session of its client ID bound to a
\* prior connection, the session is bound to the new connection only, the
\* prior connection is closed or its close is under way, and from then on
\* no Will of the prior connection is published, whatever the prior
\* connection was doing when the CONNECT was processed.
C1_Step ==
    /\ \A c \in Conns :
          conn'[c].tk # "none" =>
              /\ \A id \in DOMAIN sessions' : sessions'[id].c # c
              /\ conn'[c].pc # "connected" \/ conn'[c].closeReq
              /\ conn'[c].willSent => conn[c].willSent
    /\ \A c \in Conns :
          (Connects(c) /\ evt'.prev # NoConn) =>
              sessions'[conn'[c].cid].c = c

C2_Step ==
    \A c \in Conns :
        (Connects(c) /\ conn'[c].cid \in DOMAIN SessionsFound) =>
            LET id == conn'[c].cid
                es == SessionsFound[id]
                F == es.subs
            IN (es.c = NoConn /\ ~es.clean /\ ~sessions'[id].clean) =>
                  /\ evt'.sp = 1
                  /\ sessions'[id].subs = F
                  /\ \A k \in DOMAIN F \ evt'.failed :
                        /\ Sid(k) \in DOMAIN conn'[c].subs
                        /\ conn'[c].subs[Sid(k)] = F[k]
                        /\ mqttNeedSubForLevelUp(k) =>
                              /\ FwcSid(LevelUpSubject(k)) \in DOMAIN conn'[c].subs
                              /\ conn'[c].subs[FwcSid(LevelUpSubject(k))] = F[k]

C3_Step ==
    \A c \in Conns :
        (conn[c].pc = "new" /\ evt'.op \in {"connect", "refused"}
         /\ evt'.c = c /\ evt'.connack) =>
            (evt'.sp = 1 <=>
                /\ evt'.rc = 0
                /\ conn'[c].cid \in DOMAIN SessionsFound
                /\ ~sessions'[conn'[c].cid].clean
                /\ ~SessionsFound[conn'[c].cid].clean)

C3_SessionPresentBit == [][C3_Step]_vars

C3_Witness ==
    /\ evt.op = "connect"
    /\ evt.sp = 1
    /\ evt.prev # NoConn

\* The consumers on the messages stream made for subscription sid of the
\* session of client ID id.
ConsumersOf(m, id, sid) ==
    {n \in DOMAIN m : m[n].live /\ m[n].owner = id /\ m[n].sid = sid}

\* The durable-consumer handles of a session: held by the connection it is
\* bound to, or by the session itself when it is detached.
HandlesOf(es) == IF es.c # NoConn THEN conn[es.c].cons ELSE es.cons

\* C4: a CONNECT with cleanFlag=false that binds to a non-clean session,
\* detached or still bound to a prior connection, leaves the new connection
\* holding, for every QoS-1 subscription it restores, the durable consumer
\* that backed the subscription before (the same durable name).
C4_Step ==
    \A c \in Conns :
        (Connects(c) /\ conn'[c].cid \in DOMAIN SessionsFound) =>
            LET id == conn'[c].cid
                es == SessionsFound[id]
                H == HandlesOf(es)
            IN (~es.clean /\ ~sessions'[id].clean /\ evt'.failed = {}) =>
                  \A sid \in DOMAIN H :
                      (/\ LookupConsumer(mcons, H[sid])
                       /\ sid \in DOMAIN conn'[c].subs
                       /\ conn'[c].subs[sid] >= 1) =>
                          /\ sid \in DOMAIN conn'[c].cons
                          /\ conn'[c].cons[sid] = H[sid]

C4_ConsumerHandOver == [][C4_Step]_vars

\* C5: a CONNECT that binds to an existing session, with the clean flag in
\* the CONNECT or in the stored session, answers sessionPresent=0, deletes
\* every consumer made for the session, empties the subscription map,
\* leaves no live record of the client ID in the sessions log, and gives the
\* new connection no subscription and no consumer.
C5_Step ==
    \A c \in Conns :
        (Connects(c) /\ conn'[c].cid \in DOMAIN SessionsFound) =>
            LET id == conn'[c].cid
                es == SessionsFound[id]
            IN (es.clean \/ sessions'[id].clean) =>
                  /\ evt'.sp = 0
                  /\ \A n \in DOMAIN mcons :
                        (mcons[n].live /\ mcons[n].owner = id) =>
                            ~LookupConsumer(mcons', n)
                  /\ sessions'[id].subs = EmptyMap
                  /\ RecordsOf(slog', id) = {}
                  /\ conn'[c].subs = EmptyMap
                  /\ conn'[c].cons = EmptyMap

C5_CleanBindDiscards == [][C5_Step]_vars

\* C6: when mqttHandleClosedClient runs for the connection its session is
\* bound to: a clean session leaves the session map, has no live record in
\* the sessions log, and the consumers the connection holds are deleted; a
\* non-clean session stays, changed only in that it is bound to no
\* connection and holds the connection's consumer handles, and neither the
\* sessions log nor the consumers change.
C6_Step ==
    \A c \in Conns :
        (evt'.op = "closed" /\ evt'.c = c /\ conn[c].pc = "detach"
         /\ BoundTo(c)) =>
            LET id == conn[c].cid
                es == sessions[id]
            IN IF es.clean
               THEN /\ id \notin DOMAIN sessions'
                    /\ RecordsOf(slog', id) = {}
                    /\ \A sid \in DOMAIN conn[c].cons :
                          ~LookupConsumer(mcons', conn[c].cons[sid])
               ELSE /\ sessions' = [sessions EXCEPT
                                       ![id] = [es EXCEPT
                                                   !.c = NoConn,
                                                   !.cons = conn[c].cons]]
                    /\ slog' = slog
                    /\ \A n \in DOMAIN mcons :
                          mcons[n].live => LookupConsumer(mcons', n)

C6_CloseOfBound == [][C6_Step]_vars

C6_Witness ==
    /\ evt.op = "closed"
    /\ \E id \in DOMAIN sessions :
          /\ sessions[id].c = NoConn
          /\ ~sessions[id].clean
          /\ sessions[id].cons # EmptyMap
          /\ sessions[id].subs # EmptyMap

\* C7: the sessions log holds at most one live record per client ID, and a
\* session in memory either has stored sequence 0 and no live record, or
\* its stored sequence is the sequence of the one live record.
C7_OneRecordPerClient ==
    /\ \A id \in AllIDs : Cardinality(RecordsOf(slog, id)) <= 1
    /\ \A id \in DOMAIN sessions :
          IF sessions[id].sseq = 0
          THEN RecordsOf(slog, id) = {}
          ELSE RecordsOf(slog, id) = {sessions[id].sseq}

C7_Witness ==
    /\ lastSeq = MaxSeq
    /\ \E id \in DOMAIN sessions :
          /\ sessions[id].sseq = MaxSeq
          /\ RecordsOf(slog, id) = {MaxSeq}

\* C8: when a SUBSCRIBE, an UNSUBSCRIBE or an accepted CONNECT has
\* completed, a subscription identifier of the connection is in the
\* connection's consumer map iff its QoS is at least 1, and then the
\* messages stream has exactly one consumer for that subscription, the one
\* the map names, with the subscription's subject as filter.
C8_Step ==
    \A c \in Conns :
        (/\ evt'.op \in {"connect", "subscribe", "unsubscribe"}
         /\ evt'.c = c
         /\ conn'[c].pc = "connected"
         /\ conn' # conn) =>
            \A sid \in DOMAIN conn'[c].subs :
                /\ sid \in DOMAIN conn'[c].cons <=> conn'[c].subs[sid] >= 1
                /\ sid \in DOMAIN conn'[c].cons =>
                      /\ ConsumersOf(mcons', conn'[c].cid, sid)
                            = {conn'[c].cons[sid]}
                      /\ mcons'[conn'[c].cons[sid]].filter = sid.subj

C8_ConsumerPerQoS1Sub == [][C8_Step]_vars

\* C9: the SUBACK of a SUBSCRIBE with filters f1..fn carries n result
\* bytes in the order of the filters, byte i being min(requested QoS, 1)
\* when fi was accepted and 0x80 when creating its subscription failed;
\* and the subscription of a filter whose last occurrence was accepted has
\* the QoS granted for that occurrence.
C9_Step ==
    \A c \in Conns :
        (/\ conn[c].pc = "connected"
         /\ evt'.op = "subscribe" /\ evt'.c = c /\ evt'.suback
         /\ evt'.filters # <<>>) =>
            LET f == evt'.filters
                r == evt'.res
            IN /\ Len(r) = Len(f)
               /\ \A i \in 1..Len(f) :
                     /\ r[i] = IF evt'.fails[i] = "none"
                               THEN Min({f[i].qos, 1})
                               ELSE mqttSubAckFailure
                     /\ (/\ evt'.fails[i] = "none"
                         /\ \A j \in (i + 1)..Len(f) :
                               f[j].filter # f[i].filter) =>
                            /\ Sid(f[i].filter) \in DOMAIN conn'[c].subs
                            /\ conn'[c].subs[Sid(f[i].filter)] = r[i]

C9_SubAckBytes == [][C9_Step]_vars

C9_Witness ==
    /\ evt.op = "subscribe"
    /\ evt.suback
    /\ Len(evt.filters) = 2
    /\ evt.filters[1].filter = evt.filters[2].filter
    /\ evt.filters[1].qos = 0
    /\ evt.filters[2].qos = 2
    /\ evt.res = <<mqttSubAckFailure, 1>>
    /\ conn[evt.c].subs[Sid(evt.filters[2].filter)] = 1

\* C10: for each topic the payload map has an entry iff the last retain=1
\* PUBLISH on the topic was non-empty and the entry was not revoked since,
\* the entry carries that payload, and the wildcard index has exactly one
\* node for the topic when the map has the topic and none otherwise.
C10_RetainedStore ==
    \A t \in Topics :
        /\ t \in DOMAIN rmsgs <=> rlast[t].kind = "stored"
        /\ t \in DOMAIN rmsgs => rmsgs[t].msg = rlast[t].msg
        /\ Cardinality(NodesOf(t)) = IF t \in DOMAIN rmsgs THEN 1 ELSE 0

\* ---------------------------------------------------------------------- C20
\* C20: a CONNECT that fails only because JetStream is not enabled for the
\* account is answered with a CONNACK carrying return code 3 (server
\* unavailable) and session-present 0; the connection does not become
\* connected and no session manager is registered for the account.
C20_NoJetStreamConnAck ==
    (evt.op = "refused" /\ evt.js) =>
        /\ evt.connack
        /\ evt.rc = mqttConnAckRCServerUnavailable
        /\ evt.sp = mqttEnqueueConnAck(mqttConnAckRCServerUnavailable, FALSE)
        /\ conn[evt.c].pc # "connected"
        /\ "nojs" \notin sm

\* ---------------------------------------------------------------------- C11
\* C11: a new subscription receives exactly one retained PUBLISH for each
\* topic its filter matches whose last retain=1 PUBLISH was non-empty (and
\* not revoked since), carrying the payload of that PUBLISH, and none for any
\* other topic, however often the topic's retained message was overwritten.
C11_RetainedReplay ==
    evt.op = "replay" =>
        \A t \in Topics :
            IF t \in evt.filter /\ rlast[t].kind = "stored"
            THEN evt.sent[t] = 1 /\ evt.msgs[t] = rlast[t].msg
            ELSE evt.sent[t] = 0

\* ---------------------------------------------------------------------- C12
\* C12: a retained message stored by a connection of one account is never
\* replayed to a subscription of another account, and a retain=1 PUBLISH of
\* one account leaves the retained message another account stored for the
\* same topic as it was.
C12_Step ==
    /\ evt'.op = "replay" =>
          \A t \in Topics : evt'.sent[t] > 0 => rmsgs[t].acc = evt'.acc
    /\ (/\ evt'.op = "pubretain"
        /\ evt'.key \in DOMAIN rmsgs
        /\ rmsgs[evt'.key].acc # evt'.acc) =>
          /\ evt'.key \in DOMAIN rmsgs'
          /\ rmsgs'[evt'.key] = rmsgs[evt'.key]

C12_AccountIsolation == [][C12_Step]_vars

\* ---------------------------------------------------------------------- C19
\* C19: a DISCONNECT clears the connection's will, and no will of that
\* connection is published afterwards; a connection that still carries its
\* will when its close path reaches the detaching of the session (it was
\* neither disconnected gracefully nor taken over) has published it, and a
\* will published by a connection that was not taken over carries the QoS
\* and the retain flag the CONNECT gave it.
C19_Step ==
    \A c \in Conns :
        /\ (evt'.op = "disconnect" /\ evt'.c = c) =>
              /\ ~conn'[c].will
              /\ conn'[c].pc = "closing"
        /\ (/\ evt'.op = "willpub" /\ evt'.c = c
            /\ conn[c].pc = "willpub" /\ conn[c].tk = "none") =>
              /\ conn[c].will
              /\ mqttGetQoS(evt'.flags) = conn[c].wqos
              /\ (evt'.flags % 2 = mqttPubFlagRetain) <=> conn[c].wretain

C19_WillDelivery ==
    /\ [][C19_Step]_vars
    /\ \A c \in Conns :
          []((evt.op = "disconnect" /\ evt.c = c) =>
                [](~(evt.op = "willpub" /\ evt.c = c)))
    /\ [](\A c \in Conns :
            (conn[c].pc = "detach" /\ conn[c].will) => conn[c].willSent)

C19_Witness ==
    /\ evt.op = "willpub"
    /\ evt.tk = "none"
    /\ evt.flags = 5
    /\ conn[evt.c].pc = "detach"
    /\ conn[evt.c].will /\ conn[evt.c].wqos = 2 /\ conn[evt.c].wretain
    /\ conn[evt.c].willSent

\* ---------------------------------------------------------------------- C14
\* C14: a packet other than CONNECT is handled only on a connection whose
\* CONNECT was accepted; a packet that is reached and is a non-CONNECT packet
\* before the CONNECT, a second CONNECT, a PUBREC, PUBREL or PUBCOMP, a
\* PUBLISH with QoS 2 or a packet of unknown type ends the processing with
\* an error, and neither it nor any later packet of the buffer is handled.
C14_ConnBefore(i) ==
    \/ evt.connected
    \/ \E j \in evt.handled : j < i /\ evt.buf[j].pt = mqttPacketConnect

C14_Fatal(i) ==
    \/ evt.buf[i].pt # mqttPacketConnect /\ ~C14_ConnBefore(i)
    \/ evt.buf[i].pt = mqttPacketConnect /\ C14_ConnBefore(i)
    \/ evt.buf[i].pt \in {mqttPacketPubRec, mqttPacketPubRel, mqttPacketPubComp}
    \/ evt.buf[i].pt = mqttPacketPub /\ evt.buf[i].qos = 2
    \/ evt.buf[i].pt \notin {mqttPacketConnect, mqttPacketPub, mqttPacketPubAck,
                            mqttPacketPubRec, mqttPacketPubRel,
                            mqttPacketPubComp, mqttPacketSub, mqttPacketUnsub,
                            mqttPacketPing, mqttPacketDisconnect}

C14_Reached(i) ==
    \A j \in 1..(i - 1) :
        j \in evt.handled /\ evt.buf[j].pt # mqttPacketDisconnect

C14_Dispatcher ==
    evt.op = "parse" =>
        /\ \A i \in evt.handled :
              evt.buf[i].pt # mqttPacketConnect => C14_ConnBefore(i)
        /\ \A i \in 1..Len(evt.buf) :
              (C14_Reached(i) /\ C14_Fatal(i)) =>
                  /\ evt.err
                  /\ \A j \in i..Len(evt.buf) : j \notin evt.handled

C14_Witness ==
    /\ evt.op = "parse"
    /\ ~evt.connected
    /\ Len(evt.buf) = 2
    /\ evt.buf[1] = [pt |-> mqttPacketConnect, qos |-> 0, ok |-> TRUE]
    /\ evt.buf[2] = [pt |-> mqttPacketPub, qos |-> 2, ok |-> TRUE]
    /\ evt.handled = {1}
    /\ evt.err
    /\ evt.after

\* ---------------------------------------------------------------------- C13
\* C13: every PUBLISH written to a subscriber has the wire QoS
\* min(granted QoS of the subscription, QoS of the publication), a native
\* publication counting as QoS 0, and carries a packet identifier exactly
\* when that wire QoS is 1.
C13_EffectiveQoS ==
    (evt.op = "deliver" /\ evt.written) =>
        /\ mqttGetQoS(evt.flags) = Min({evt.subQoS, evt.pubQoS})
        /\ evt.wrotePi <=> mqttGetQoS(evt.flags) = 1

\* ---------------------------------------------------------------------- C15
\* C15: a PUBACK for an inbound PUBLISH is enqueued only for a QoS-1 PUBLISH
\* whose message was stored in the messages stream, and carries its packet
\* identifier; a QoS-0 PUBLISH produces no PUBACK.
C15_PubAckAfterStore ==
    evt.op = "publish" =>
        /\ evt.puback # 0 =>
              evt.qos = 1 /\ evt.stored /\ evt.puback = evt.pi
        /\ evt.qos = 0 => evt.puback = 0

\* ---------------------------------------------------------------------- C16
\* C16 (as stated): a PUBACK whose identifier has a pending entry forwards
\* exactly one ack, to the recorded ack subject on the consumer of the
\* recorded key, and removes the entry; a PUBACK without pending entry
\* forwards nothing and changes nothing of the connection.
C16_Orig_Step ==
    \A c \in Conns :
        (evt'.op = "puback" /\ evt'.c = c /\ conn[c].pc = "connected") =>
            IF evt'.pi \in DOMAIN conn[c].acks
            THEN /\ Len(evt'.fwd) = 1
                 /\ evt'.fwd[1].subj = conn[c].acks[evt'.pi].ackSubj
                 /\ evt'.fwd[1].key = conn[c].acks[evt'.pi].jsConsKey
                 /\ evt'.pi \notin DOMAIN conn'[c].acks
            ELSE /\ evt'.fwd = <<>>
                 /\ conn'[c] = conn[c]

C16_PubAckCorrelation_Orig == [][C16_Orig_Step]_vars

\* C16 (amended): a PUBACK whose identifier has a pending entry removes the
\* entry and no other; if the connection still has a consumer under the
\* recorded key it forwards exactly one ack, to the recorded ack subject on
\* that consumer, and otherwise it forwards nothing.  A PUBACK without
\* pending entry forwards nothing and changes nothing of the connection.
C16_Step ==
    \A c \in Conns :
        (evt'.op = "puback" /\ evt'.c = c /\ conn[c].pc = "connected") =>
            IF evt'.pi \in DOMAIN conn[c].acks
            THEN /\ IF conn[c].acks[evt'.pi].jsConsKey \in DOMAIN conn[c].cons
                    THEN /\ Len(evt'.fwd) = 1
                         /\ evt'.fwd[1].subj = conn[c].acks[evt'.pi].ackSubj
                         /\ evt'.fwd[1].key = conn[c].acks[evt'.pi].jsConsKey
                         /\ evt'.fwd[1].cons =
                               conn[c].cons[conn[c].acks[evt'.pi].jsConsKey]
                    ELSE evt'.fwd = <<>>
                 /\ DOMAIN conn'[c].acks = DOMAIN conn[c].acks \ {evt'.pi}
                 /\ \A q \in DOMAIN conn'[c].acks :
                       conn'[c].acks[q] = conn[c].acks[q]
                 /\ conn'[c].pc = "connected"
            ELSE /\ evt'.fwd = <<>>
                 /\ conn'[c] = conn[c]

C16_PubAckCorrelation == [][C16_Step]_vars

C16_Witness ==
    /\ evt.op = "puback"
    /\ evt.pending
    /\ evt.fwd = <<>>
    /\ conn[evt.c].pc = "connected"
    /\ evt.pi \notin DOMAIN conn[evt.c].acks

\* ---------------------------------------------------------------------- C17
\* C17: a PUBLISH written with QoS 1 carries a packet identifier that is
\* not 0, and the identifier allocated after 65535 is 1.
C17_PacketIdNeverZero ==
    (evt.op = "deliver" /\ mqttGetQoS(evt.flags) = 1) =>
        /\ evt.pi # 0
        /\ evt.wrotePi
        /\ evt.before = 65535 => evt.pi = 1

\* ---------------------------------------------------------------------- C18
\* the PUBLISH at position i of the outbound queue of c comes after the
\* SUBACK of the SUBSCRIBE that created its subscription
C18_AfterSubAck(c, i) ==
    \E j \in 1..(i - 1) :
        /\ conn[c].out[j].k = "SUBACK"
        /\ conn[c].out[i].sid \in conn[c].out[j].subs

C22_RoundTripLaw ==
    (evt.op = "topic" /\ ~HasWildcard(evt.mt)) =>
        /\ ~evt.err
        /\ ~evt.again.err
        /\ evt.again.res = evt.subject

\* ---------------------------------------------------------------------- C23
\* C23: for every non-empty topic name T without wildcards,
\* subjectToMqtt(mqttToSubject(T)) = T.
C23_LosslessMapping ==
    (evt.op = "topic" /\ ~HasWildcard(evt.mt)) =>
        /\ ~evt.err
        /\ evt.back = evt.mt

\* ---------------------------------------------------------------------- C28
\* C28: for a keep-alive k > 0 the read deadline armed after the successful
\* CONNECT and after each later read buffer is exactly 1.5 x k seconds; for
\* k = 0 no deadline is armed (nor removed); none is armed when parsing
\* ended with an error.
C28_KeepAliveDeadline ==
    evt.op = "keepalive" =>
        /\ (evt.connected /\ ~evt.err /\ ~evt.disc /\ evt.k > 0) =>
              evt.armed = 1500 * evt.k
        /\ evt.k = 0 => evt.armed = 0 /\ ~evt.cleared
        /\ evt.err => evt.armed = 0

\* ---------------------------------------------------------------------- C29
\* C29: every publication processed on behalf of an MQTT connection carries
\* QoS 0 or 1; here the will published when a connection is closed, with
\* the flags mqttHandleWill gives it.
C29_OnlyQoS0And1 ==
    evt.op = "willpub" => mqttGetQoS(evt.flags) \in {0, 1}

\* ---------------------------------------------------------------------- C27
\* C27: once an UNSUBSCRIBE for the filter F sent by the connection bound
\* to the session is processed and acknowledged, F is neither in the
\* session's subscription map nor in a persisted record of the session.
C27_Step ==
    (/\ evt'.op = "unsubscribe"
     /\ evt'.unsuback
     /\ conn[evt'.c].cid \in DOMAIN sessions
     /\ sessions[conn[evt'.c].cid].c = evt'.c) =>
        \A F \in SpecFilters :
            /\ conn[evt'.c].cid \in DOMAIN sessions' =>
                  F \notin DOMAIN sessions'[conn[evt'.c].cid].subs
            /\ \A seq \in DOMAIN slog' :
                  slog'[seq].id = conn[evt'.c].cid =>
                      F \notin DOMAIN slog'[seq].subs

C27_UnsubscribeUpdatesSession == [][C27_Step]_vars

\* ---------------------------------------------------------------------- C30
\* C30: a SUBSCRIBE, an UNSUBSCRIBE or the close handling of a connection
\* whose client ID has a session that is not bound to it (it was taken
\* over) leaves every session's back-link, clean flag, subscription map and
\* consumer handles, and the persisted records, as they were.
C30_Step ==
    \A c \in Conns :
        (/\ evt'.op \in {"subscribe", "unsubscribe", "closed"}
         /\ evt'.c = c
         /\ conn[c].cid \in DOMAIN sessions
         /\ sessions[conn[c].cid].c # c) =>
            /\ sessions' = sessions
            /\ slog' = slog

C30_UnboundNoOp == [][C30_Step]_vars

\* the close handling of a taken-over connection has run while the session
\* is bound to another connection and holds subscriptions
C30_Witness ==
    /\ evt.op = "closed"
    /\ evt.tk # "none"
    /\ \E id \in DOMAIN sessions :
          /\ sessions[id].c \notin {NoConn, evt.c}
          /\ conn[sessions[id].c].pc = "connected"
          /\ sessions[id].subs # EmptyMap

\* ---------------------------------------------------------------------- C26
\* C26: for a filter whose subject ends in ".>" after at least one token, an
\* open connection holds the subscription on the subject and the one on the
\* parent subject (identifier: the parent followed by " fwc") together and
\* with the same QoS, or neither of them: after the subscription is
\* accepted both, after a failure creating either neither.
C26_LevelUpPair ==
    \A c \in Conns : \A F \in Filters :
        (conn[c].pc = "connected" /\ mqttNeedSubForLevelUp(F)) =>
            LET sid == Sid(F)
                fwcsid == FwcSid(LevelUpSubject(F))
            IN /\ sid \in DOMAIN conn[c].subs <=>
                     fwcsid \in DOMAIN conn[c].subs
               /\ sid \in DOMAIN conn[c].subs /\ fwcsid \in DOMAIN conn[c].subs =>
                     conn[c].subs[sid] = conn[c].subs[fwcsid]

\* ---------------------------------------------------------------------- C25
\* the consumers that deliver to the connection c for its subscription sid
C25_Paths(c, sid) ==
    {n \in DOMAIN mcons :
        /\ mcons[n].live
        /\ mcons[n].deliver \in DOMAIN conn[c].isubs
        /\ conn[c].isubs[mcons[n].deliver] = sid}

\* C25: a publication of an MQTT publisher with QoS >= 1 is not written by
\* the direct fan-out to a subscription of QoS 1; a message of the messages
\* stream is written only through a consumer's inbox subscription; and each
\* QoS-1 subscription of an open connection, the translated subscription of
\* "foo/#" and its level-up helper included, has exactly one consumer
\* delivering to the connection, filtered on the subscription's own subject.
C25_NoDuplicateQoS1 ==
    /\ evt.op = "live" =>
          /\ (evt.kind = "MQTT" /\ evt.pubQoS >= 1 /\ evt.subQoS >= 1) =>
                ~evt.written
          /\ evt.kind = "JETSTREAM" => (evt.written <=> evt.inbox)
    /\ \A c \in Conns : \A sid \in DOMAIN conn[c].subs :
          (conn[c].pc = "connected" /\ conn[c].subs[sid] >= 1) =>
              /\ sid \in DOMAIN conn[c].cons
              /\ C25_Paths(c, sid) = {conn[c].cons[sid]}
              /\ mcons[conn[c].cons[sid]].filter = sid.subj

\* the consumer of the level-up helper of "foo/#" has delivered a message
\* to its inbox while the translated subscription exists with QoS 1
C25_Witness ==
    /\ evt.op = "live"
    /\ evt.kind = "JETSTREAM"
    /\ evt.written
    /\ evt.sid = FwcSid(<<"foo">>)
    /\ Sid(<<"foo", ">">>) \in DOMAIN conn[evt.c].subs
    /\ conn[evt.c].subs[Sid(<<"foo", ">">>)] = 1
    /\ conn[evt.c].subs[evt.sid] = 1

\* ---------------------------------------------------------------------- C21
\* C21: in the outbound queue of a connection, every PUBLISH comes after
\* the CONNACK, also when the CONNECT resumes a session with subscriptions.
C21_ConnAckFirst ==
    \A c \in Conns : \A i \in 1..Len(conn[c].out) :
        conn[c].out[i].k = "PUBLISH" =>
            \E j \in 1..(i - 1) : conn[c].out[j].k = "CONNACK"

\* ---------------------------------------------------------------------- C24
\* C24: the QoS-1 messages stored while the subscriber of a non-clean
\* session was away are delivered after its next CONNECT with
\* cleanFlag=false.  A stored message is held by the durable consumers that
\* exist when it is stored, so: when such a CONNECT finds the session
\* detached, or bound to a connection that is no longer open, each QoS-1
\* subscription it restores is served by a consumer that was made for that
\* subscription of the session and was live before the CONNECT, if there
\* is one.
C24_Step ==
    \A c \in Conns :
        (Connects(c) /\ conn'[c].cid \in DOMAIN SessionsFound) =>
            LET id == conn'[c].cid
                es == SessionsFound[id]
            IN (/\ ~es.clean
                /\ ~sessions'[id].clean
                /\ es.c = NoConn \/ conn[es.c].pc # "connected") =>
                  \A F \in DOMAIN es.subs :
                      (/\ es.subs[F] >= 1
                       /\ F \notin evt'.failed
                       /\ ConsumersOf(mcons, id, Sid(F)) # {}) =>
                          /\ Sid(F) \in DOMAIN conn'[c].cons
                          /\ conn'[c].cons[Sid(F)] \in
                                ConsumersOf(mcons, id, Sid(F))

C24_DurableQoS1Delivery == [][C24_Step]_vars

\* ---------------------------------------------------------------------- C39
\* C39: when the append of the new session record fails during the session
\* update of a SUBSCRIBE or an UNSUBSCRIBE, the session's subscription map
\* and stored sequence are what they were before the packet, and the
\* record stored before is still live.
C39_SaveFailed ==
    \/ evt'.op = "subscribe" /\ ~evt'.suback
    \/ evt'.op = "unsubscribe" /\ ~evt'.unsuback

C39_Step ==
    \A c \in Conns :
        (C39_SaveFailed /\ evt'.c = c /\ BoundTo(c)) =>
            LET id == conn[c].cid IN
            /\ id \in DOMAIN sessions'
            /\ sessions'[id].subs = sessions[id].subs
            /\ sessions'[id].sseq = sessions[id].sseq
            /\ sessions[id].sseq # 0 => /\ sessions[id].sseq \in DOMAIN slog'
                                        /\ slog'[sessions[id].sseq].subs
                                             = sessions'[id].subs

C39_FailedSaveKeepsSession == [][C39_Step]_vars

\* ---------------------------------------------------------------------- C38
\* C38: every session of the account's session map, a session recovered
\* from a record without subscriptions included, has an initialised
\* subscription map, and no SUBSCRIBE ends in a write to a nil map.
C38_RecoveredSessionsUsable ==
    /\ \A id \in DOMAIN sessions : ~sessions[id].subsNil
    /\ evt.op # "panic"

\* ---------------------------------------------------------------------- C40
\* C40: on a connected client, the subscriptions on inbox subjects and the
\* consumers of its consumer map are in one-to-one correspondence, each
\* inbox subscription being on the current deliver subject of its consumer.
C40_InboxOf(c, sid) == mcons[conn[c].cons[sid]].deliver

C40_OneInboxPerConsumer ==
    \A c \in Conns :
        conn[c].pc = "connected" =>
            /\ \A sid \in DOMAIN conn[c].cons :
                  /\ conn[c].cons[sid] \in DOMAIN mcons
                  /\ C40_InboxOf(c, sid) \in DOMAIN conn[c].isubs
                  /\ conn[c].isubs[C40_InboxOf(c, sid)] = sid
            /\ \A inbox \in DOMAIN conn[c].isubs :
                  \E sid \in DOMAIN conn[c].cons : C40_InboxOf(c, sid) = inbox

\* ---------------------------------------------------------------------- C33
\* C33: a SUBSCRIBE that is granted and changes the QoS of a subscription:
\* with QoS >= 1 on a subscription that has a consumer, the consumer keeps
\* its durable name; with QoS 0, the consumer is deleted, no inbox
\* subscription is left for the subscription and the plain subscription
\* stays with QoS 0 (the same for the level-up helper); with QoS >= 1 on a
\* subscription at QoS 0, the consumer created has a name no consumer had;
\* and once the SUBACK is sent the session map and the live record have the
\* granted QoS.
C33_Sids(F) ==
    {Sid(F)} \cup (IF mqttNeedSubForLevelUp(F)
                   THEN {FwcSid(LevelUpSubject(F))} ELSE {})

C33_Case(c, F, q, s) ==
    /\ (q >= 1 /\ s \in DOMAIN conn[c].cons) =>
           /\ s \in DOMAIN conn'[c].cons
           /\ conn'[c].cons[s] = conn[c].cons[s]
    /\ q = 0 =>
           /\ s \notin DOMAIN conn'[c].cons
           /\ s \in DOMAIN conn[c].cons =>
                  ~LookupConsumer(mcons', conn[c].cons[s])
           /\ \A inbox \in DOMAIN conn'[c].isubs : conn'[c].isubs[inbox] # s
           /\ s \in DOMAIN conn'[c].subs /\ conn'[c].subs[s] = 0
    /\ (q >= 1 /\ s \in DOMAIN conn[c].subs /\ conn[c].subs[s] = 0) =>
           /\ s \in DOMAIN conn'[c].cons
           /\ conn'[c].cons[s] \notin DOMAIN mcons

C33_Recorded(c, F, q) ==
    LET id == conn[c].cid IN
    /\ id \in DOMAIN sessions'
    /\ F \in DOMAIN sessions'[id].subs
    /\ sessions'[id].subs[F] = ClampQoS(q)
    /\ sessions'[id].sseq \in DOMAIN slog'
    /\ F \in DOMAIN slog'[sessions'[id].sseq].subs
    /\ slog'[sessions'[id].sseq].subs[F] = ClampQoS(q)

C33_Step ==
    (evt'.op = "subscribe" /\ evt'.filters # <<>> /\ evt'.suback) =>
        LET c == evt'.c
            fs == evt'.filters
        IN \A i \in 1..Len(fs) :
              (/\ evt'.res[i] # mqttSubAckFailure
               /\ \A j \in 1..Len(fs) : fs[j].filter = fs[i].filter => j = i
               /\ Sid(fs[i].filter) \in DOMAIN conn[c].subs) =>
                  /\ \A s \in C33_Sids(fs[i].filter) :
                        C33_Case(c, fs[i].filter, fs[i].qos, s)
                  /\ C33_Recorded(c, fs[i].filter, fs[i].qos)

C33_QoSChange == [][C33_Step]_vars

\* ---------------------------------------------------------------------- C34
\* C34: when the host refuses the subscription, the inbox subscription or
\* the consumer of one filter of a SUBSCRIBE, the SUBACK byte of the filter
\* is 0x80, the subscriptions, inbox subscriptions and consumers of the
\* filter (and of its level-up helper) are what they were before the
\* SUBSCRIBE, the session map is unchanged for the filter, and the other
\* filters are granted their QoS.
C34_Same(f, g, k) ==
    /\ k \in DOMAIN f <=> k \in DOMAIN g
    /\ k \in DOMAIN f => f[k] = g[k]

C34_ConsumersAt(m, s) ==
    {n \in DOMAIN m : m[n].live /\ m[n].sid = s}

C34_Contained(c, F) ==
    /\ \A s \in C33_Sids(F) :
          /\ C34_Same(conn[c].subs, conn'[c].subs, s)
          /\ C34_Same(conn[c].cons, conn'[c].cons, s)
          /\ {x \in DOMAIN conn[c].isubs : conn[c].isubs[x] = s}
               = {x \in DOMAIN conn'[c].isubs : conn'[c].isubs[x] = s}
          /\ C34_ConsumersAt(mcons, s) = C34_ConsumersAt(mcons', s)
          /\ \A n \in C34_ConsumersAt(mcons, s) :
                mcons'[n].deliver = mcons[n].deliver
    /\ C34_Same(sessions[conn[c].cid].subs, sessions'[conn[c].cid].subs, F)

C34_Step ==
    (evt'.op = "subscribe" /\ evt'.filters # <<>>) =>
        LET c == evt'.c
            fs == evt'.filters
        IN \A i \in 1..Len(fs) :
              (\A j \in 1..Len(fs) : fs[j].filter = fs[i].filter => j = i) =>
                  IF evt'.fails[i] # "none"
                  THEN /\ evt'.res[i] = mqttSubAckFailure
                       /\ C34_Contained(c, fs[i].filter)
                  ELSE evt'.res[i] = ClampQoS(fs[i].qos)

C34_FailureContained == [][C34_Step]_vars

\* ---------------------------------------------------------------------- C37
\* C37: the packet identifier allocated for an outbound QoS-1 PUBLISH has
\* no pending ack on the connection at the time it is allocated.
C37_Step ==
    (evt'.op = "deliver" /\ mqttGetQoS(evt'.flags) = 1) =>
        evt'.pi \notin DOMAIN conn[evt'.c].acks

C37_PendingAckUnique == [][C37_Step]_vars

\* ---------------------------------------------------------------------- C35
\* C35: a permission recheck completes, and it removes a retained entry if
\* and only if the entry has a non-empty source and the source is no user
\* of the new configuration or is not allowed to publish on the entry's
\* subject; every other entry is left as it was.
C35_Step ==
    evt'.op = "checkperms" =>
        /\ ~evt'.panic
        /\ DOMAIN rmsgs' \subseteq DOMAIN rmsgs
        /\ \A t \in DOMAIN rmsgs :
              /\ t \notin DOMAIN rmsgs' <=>
                     /\ rmsgs[t].source # ""
                     /\ \/ rmsgs[t].source \notin evt'.present
                        \/ <<rmsgs[t].source, t>> \in evt'.denied
              /\ t \in DOMAIN rmsgs' => rmsgs'[t] = rmsgs[t]

C35_PermissionRecheck == [][C35_Step]_vars

\* ---------------------------------------------------------------------- C31
\* C31 as stated: a goroutine that holds one of the four locks and acquires
\* another acquires them in the order registry, account session manager,
\* connection, retained store.
C31_OrderedBy(rank) ==
    \A g \in Conns : \A i, j \in 1..Len(conn[g].held) :
        i < j => rank[conn[g].held[i].l.k] < rank[conn[g].held[j].l.k]

C31_LockOrdering_Orig ==
    C31_OrderedBy([sm |-> 1, asm |-> 2, c |-> 3, rm |-> 4])

\* C31, amended: a goroutine that holds one of the four locks and acquires
\* another acquires them in the order registry, account session manager,
\* retained store, connection; in particular no connection lock is held
\* when the retained-store lock or the account session manager lock is
\* acquired, and no two connection locks are held together.
C31_LockOrdering ==
    C31_OrderedBy([sm |-> 1, asm |-> 2, rm |-> 3, c |-> 4])

\* a CONNECT restoring subscriptions holds the account session manager's
\* lock, the retained store's read lock and the client's lock
C31_Witness ==
    \E g \in Conns :
        /\ Len(conn[g].held) = 3
        /\ conn[g].held[1].l = asmLock
        /\ conn[g].held[2].l = rmLock
        /\ conn[g].held[3].l = cLock(g)

\* ---------------------------------------------------------------------- C36
\* C36: a message that a consumer delivers to its inbox is written only to
\* the connection that owns the consumer; no other connection receives it
\* through a subscription on a filter that translates into the inbox prefix.
C36_InboxConfidentiality ==
    (evt.op = "inboxdeliver" /\ evt.written) => evt.c = evt.owner

\* ---------------------------------------------------------------------- C32
\* the live records of the client ID cid, and the last of them
C32_Records(cid) == {q \in DOMAIN slog : slog[q].id = cid}

C32_Last(cid) == CHOOSE q \in C32_Records(cid) : \A r \in C32_Records(cid) : r <= q

\* C32: replaying the sessions stream after a restart yields, for each
\* client ID with a live record, exactly one session, bound to no
\* connection, with the clean flag, the subscriptions and the consumers of
\* the record with the highest sequence (those of them that still exist on
\* the messages stream) and nothing of older records, with that sequence as
\* its stored sequence, and the older records deleted.
C32_RecoveryRoundTrip ==
    "js" \notin sm =>
        LET e == asmInit IN
        /\ DOMAIN e.sessions = {slog[q].id : q \in DOMAIN slog}
        /\ \A cid \in DOMAIN e.sessions :
              LET top == C32_Last(cid)
                  ps == slog[top]
                  es == e.sessions[cid]
              IN /\ es.c = NoConn
                 /\ es.clean = ps.clean
                 /\ es.subs = ps.subs
                 /\ es.cons = Restrict(ps.cons,
                        {k \in DOMAIN ps.cons : LookupConsumer(mcons, ps.cons[k])})
                 /\ es.sseq = top
                 /\ {q \in DOMAIN e.slog : e.slog[q].id = cid} = {top}

====
